---- MODULE Spec2Model ----
(***************************************************************************)
(* Model of python/license_retry_wrapper.py: the retry supervisor          *)
(* (run_with_license_retry), its signal handler and the OutputMonitor it   *)
(* feeds, composed with the spawned worker processes.                      *)
(*                                                                         *)
(* Output lines are real strings; the string functions the code uses       *)
(* (lower, strip, startswith, in, replace, split, slicing) are computed    *)
(* character by character. The console is the sequence of texts written   *)
(* by print, one element per call, newline included.                       *)
(*                                                                         *)
(* The clock counts whole seconds. Spec holds the runs that take less than *)
(* one clock second (LICENSE_RETRY_INTERVAL=0), which is all the control   *)
(* flow of the supervisor can tell apart; TimedSpec lets the clock advance *)
(* and BootSpec starts from the environment, before it is parsed.          *)
(***************************************************************************)
EXTENDS Integers, Sequences, FiniteSets, TLC

\* ------------------------------------------------------------------ bounds
\* Largest positive LICENSE_MAX_RETRIES explored (the domain is -1..MaxRetries).
MaxRetries == 1
\* Cap on the attempt counter (it is unbounded when max_retries < 0).
MaxAttempts == MaxRetries + 2
\* Largest LICENSE_CHECK_LINES explored (the domain is 0..MaxCheckLines).
MaxCheckLines == 1
\* Most lines one worker writes before it closes its output.
MaxLines == 2
\* Largest LOG_BUFFER_SIZE explored.
MaxBufferSize == 1
\* Most termination signals delivered to the supervisor in one run.
MaxSignals == 1
\* Last second of the clock.
MaxTime == 3

\* Most samples the sampling thread takes in one scope.
MaxSamples == 2

\* --------------------------------------------------------------- constants
SIGINT == 2
SIGTERM == 15
Signals == {SIGTERM, SIGINT}

\* os.environ.get defaults
DefaultMaxRetries == 0
DefaultRetryInterval == 300
DefaultCheckLines == 6
DefaultBufferSize == 100
DefaultHeartbeatInterval == 60

\* the LICENSE_CHECK_LINES default the module docstring states
DocCheckLines == 20

\* _compute_log_path for a command line without --output-path and --step
LogPath == "/tmp/metashape-unknown.log"

\* Exit codes a worker may choose by itself.
RetCodes == {0, 1, 3}

\* Lines a worker may write.
WorkerLines ==
    { "Loading photos\n",
      "Error: License Not Found\n",
      "No license found.\n",
      "[automate-metashape-progress] matchPhotos: 100%\n" }

\* ------------------------------------------------------- string functions
Whitespace == {" ", "\n", "\t"}

\* the ASCII letters str.lower() changes
LowerTable ==
    LET upper == << "A", "B", "C", "D", "E", "F", "G", "H", "I", "J", "K", "L",
                    "M", "N", "O", "P", "Q", "R", "S", "T", "U", "V", "W", "X",
                    "Y", "Z" >>
        lower == << "a", "b", "c", "d", "e", "f", "g", "h", "i", "j", "k", "l",
                    "m", "n", "o", "p", "q", "r", "s", "t", "u", "v", "w", "x",
                    "y", "z" >>
    IN  [ c \in { upper[k] : k \in 1..Len(upper) } |->
            lower[CHOOSE k \in 1..Len(upper) : upper[k] = c] ]

\* str.lower(), one character.
LowerChar(c) == IF c \in DOMAIN LowerTable THEN LowerTable[c] ELSE c

\* s[i:].lower()
RECURSIVE LowerFrom(_, _)
LowerFrom(s, i) ==
    IF i > Len(s) THEN ""
    ELSE LowerChar(SubSeq(s, i, i)) \o LowerFrom(s, i + 1)

\* s.lower()
Lower(s) == LowerFrom(s, 1)

\* p in s
Contains(s, p) ==
    \E i \in 1..(Len(s) - Len(p) + 1) : SubSeq(s, i, i + Len(p) - 1) = p

\* s.startswith(p)
StartsWith(s, p) ==
    /\ Len(s) >= Len(p)
    /\ SubSeq(s, 1, Len(p)) = p

IsSpaceAt(s, i) == SubSeq(s, i, i) \in Whitespace

\* s.strip()
Strip(s) ==
    IF \A i \in 1..Len(s) : IsSpaceAt(s, i) THEN ""
    ELSE SubSeq(s,
                CHOOSE i \in 1..Len(s) :
                    ~IsSpaceAt(s, i) /\ \A j \in 1..(i - 1) : IsSpaceAt(s, j),
                CHOOSE i \in 1..Len(s) :
                    ~IsSpaceAt(s, i) /\ \A j \in (i + 1)..Len(s) : IsSpaceAt(s, j))

\* s.replace(p, r, 1)
ReplaceFirst(s, p, r) ==
    IF Contains(s, p)
    THEN LET i == CHOOSE k \in 1..(Len(s) - Len(p) + 1) :
                     /\ SubSeq(s, k, k + Len(p) - 1) = p
                     /\ \A j \in 1..(k - 1) : SubSeq(s, j, j + Len(p) - 1) # p
         IN  SubSeq(s, 1, i - 1) \o r \o SubSeq(s, i + Len(p), Len(s))
    ELSE s

\* s.split(sep)[0], sep one character
SplitFirst(s, sep) ==
    IF Contains(s, sep)
    THEN LET i == CHOOSE k \in 1..Len(s) :
                     /\ SubSeq(s, k, k) = sep
                     /\ \A j \in 1..(k - 1) : SubSeq(s, j, j) # sep
         IN  SubSeq(s, 1, i - 1)
    ELSE s

\* s[:n]
Slice(s, n) == IF Len(s) <= n THEN s ELSE SubSeq(s, 1, n)

Digits == << "0", "1", "2", "3", "4", "5", "6", "7", "8", "9" >>

IsDigitAt(s, i) == \E k \in 1..Len(Digits) : Digits[k] = SubSeq(s, i, i)

DigitValue(c) == (CHOOSE k \in 1..Len(Digits) : Digits[k] = c) - 1

\* the number written by the digits s[i..j]
RECURSIVE DigitsValue(_, _, _)
DigitsValue(s, i, j) ==
    IF j < i THEN 0
    ELSE 10 * DigitsValue(s, i, j - 1) + DigitValue(SubSeq(s, j, j))

\* int(s): surrounding whitespace, an optional sign, then digits; anything
\* else raises ValueError (ok = FALSE)
ParseInt(s) ==
    LET body   == Strip(s)
        signed == Len(body) > 0 /\ SubSeq(body, 1, 1) \in {"+", "-"}
        first  == IF signed THEN 2 ELSE 1
        sign   == IF signed /\ SubSeq(body, 1, 1) = "-" THEN -1 ELSE 1
    IN  IF Len(body) >= first /\ \A i \in first..Len(body) : IsDigitAt(body, i)
        THEN [ ok |-> TRUE,  value |-> sign * DigitsValue(body, first, Len(body)) ]
        ELSE [ ok |-> FALSE, value |-> 0 ]

\* f"{n}" and f"{x:.0f}" for a whole number
Str(n) == ToString(n)

\* f"{n:02d}"
Pad2(n) == IF n < 10 THEN "0" \o ToString(n) ELSE ToString(n)

\* time.strftime('%H:%M:%S') at second t (local midnight at second 0)
Clock(t) ==
    Pad2((t \div 3600) % 24) \o ":" \o Pad2((t \div 60) % 60) \o ":" \o Pad2(t % 60)

\* mutant of DequeAppend: the oldest line is not evicted
DequeAppend_NoEvict(buf, x, maxlen) == Append(buf, x)

\* collections.deque(maxlen=n).append(x)
DequeAppend(buf, x, maxlen) ==
    IF maxlen = 0 THEN <<>>
    ELSE IF Len(buf) >= maxlen THEN Append(Tail(buf), x)
    ELSE Append(buf, x)

\* ----------------------------------------------------------- OutputMonitor
PROGRESS_PREFIX == "[automate-metashape-progress]"

important_prefixes ==
    { "[automate-metashape-progress]",
      "[automate-metashape-license-wrapper]",
      "[automate-metashape-monitor]",
      "[automate-metashape-heartbeat]" }

LastContentMax == 100

\* OutputMonitor.__init__ at second t (the supervisor always passes a log
\* path): log_file is the content of the full log, log_closed whether the
\* file object has been closed
NewMonitor(bs, hb, t) ==
    [ buffer_size        |-> bs,
      heartbeat_interval |-> hb,
      full_output_mode   |-> (hb = 0),
      buffer             |-> <<>>,
      line_count         |-> 0,
      start_time         |-> t,
      last_heartbeat     |-> t,
      last_content_line  |-> "",
      last_progress      |-> "",
      current_operation  |-> "",
      log_file           |-> <<>>,
      log_closed         |-> FALSE ]

\* what OutputMonitor.__init__ prints, lines 77 and 80
InitOutput(hb) ==
    << "[automate-metashape-monitor] Full log: " \o LogPath \o "\n" >>
    \o (IF hb = 0
        THEN << "[automate-metashape-monitor] Full output mode enabled (LOG_HEARTBEAT_INTERVAL=0)\n" >>
        ELSE <<>>)

\* mutant of Reset: the tracked operation survives the reset
Reset_KeepsOperation(m, t) ==
    [ m EXCEPT !.buffer            = <<>>,
               !.line_count        = 0,
               !.start_time        = t,
               !.last_heartbeat    = t,
               !.last_content_line = "",
               !.last_progress     = "",
               !.log_file          = <<>> ]

\* mutant of Reset: the full log is not truncated
Reset_KeepsLog(m, t) ==
    [ m EXCEPT !.buffer            = <<>>,
               !.line_count        = 0,
               !.start_time        = t,
               !.last_heartbeat    = t,
               !.last_content_line = "",
               !.last_progress     = "",
               !.current_operation = "" ]

\* mutant of Reset: the line count goes on from the attempt before
Reset_KeepsCount(m, t) ==
    [ m EXCEPT !.buffer            = <<>>,
               !.start_time        = t,
               !.last_heartbeat    = t,
               !.last_content_line = "",
               !.last_progress     = "",
               !.current_operation = "",
               !.log_file          = <<>> ]

\* mutant of Reset: the buffer is not cleared
Reset_KeepsBuffer(m, t) ==
    [ m EXCEPT !.line_count        = 0,
               !.start_time        = t,
               !.last_heartbeat    = t,
               !.last_content_line = "",
               !.last_progress     = "",
               !.current_operation = "",
               !.log_file          = <<>> ]

\* OutputMonitor.reset at second t
Reset(m, t) ==
    [ m EXCEPT !.buffer            = <<>>,
               !.line_count        = 0,
               !.start_time        = t,
               !.last_heartbeat    = t,
               !.last_content_line = "",
               !.last_progress     = "",
               !.current_operation = "",
               !.log_file          = <<>> ]

IsImportant(line) == \E p \in important_prefixes : StartsWith(line, p)

\* line 115: the progress text without its marker
LastProgress(stripped) == ReplaceFirst(stripped, PROGRESS_PREFIX \o " ", "")

\* line 117: the operation name, everything before the first colon
OpName(last_progress) == SplitFirst(last_progress, ":")

\* mutant of SparseUpdate: the last content line is kept whole
SparseUpdate_Whole(m, line, stripped) ==
    IF StartsWith(stripped, PROGRESS_PREFIX)
    THEN CHOOSE r \in { [ m EXCEPT !.last_progress     = lp,
                                   !.current_operation = OpName(lp) ] :
                          lp \in {LastProgress(stripped)} } : TRUE
    ELSE IF ~IsImportant(line)
    THEN [ m EXCEPT !.last_content_line = stripped ]
    ELSE m

\* lines 112-125, for a line already stripped: the tracked progress state
\* and last content line.
SparseUpdate(m, line, stripped) ==
    IF StartsWith(stripped, PROGRESS_PREFIX)
    THEN CHOOSE r \in { [ m EXCEPT !.last_progress     = lp,
                                   !.current_operation = OpName(lp) ] :
                          lp \in {LastProgress(stripped)} } : TRUE
    ELSE IF ~IsImportant(line)
    THEN [ m EXCEPT !.last_content_line = Slice(stripped, LastContentMax) ]
    ELSE m

\* Sparse-mode classification of process_line (stripped is computed once).
SparseTrack(m, line) ==
    CHOOSE r \in { SparseUpdate(m, line, stripped) :
                     stripped \in {Strip(line)} } : TRUE

\* The bookkeeping every received line gets: count, buffer, full log.
Record(m, line) ==
    [ m EXCEPT !.line_count = @ + 1,
               !.buffer     = DequeAppend(@, line, m.buffer_size),
               !.log_file   = Append(@, line) ]

\* mutant of HeartbeatDue: a full interval is not yet enough
HeartbeatDue_Strict(m, t) == t - m.last_heartbeat > m.heartbeat_interval

\* line 133: it is time for a heartbeat
HeartbeatDue(m, t) == t - m.last_heartbeat >= m.heartbeat_interval

\* mutant of Beat: the heartbeat timer is never set again
Beat_KeepsTimer(m, t) == m

\* lines 131-150: the heartbeat timer after the line was classified
Beat(m, t) == IF HeartbeatDue(m, t) THEN [ m EXCEPT !.last_heartbeat = t ] ELSE m

\* mutant of process_line: lines are classified in full output mode too
process_line_Classifies(m, line, t) == Beat(SparseTrack(Record(m, line), line), t)

\* OutputMonitor.process_line at second t: the monitor afterwards
process_line(m, line, t) ==
    LET r == Record(m, line)
    IN  IF r.full_output_mode THEN r ELSE Beat(SparseTrack(r, line), t)

HEARTBEAT_PREFIX == "[automate-metashape-heartbeat]"

\* lines 121 and 123: the heartbeat of an operation that started or completed
TransitionLine(op_name, what, t) ==
    HEARTBEAT_PREFIX \o " " \o Clock(t) \o " | " \o op_name \o ": " \o what \o "\n"

\* mutant of TransitionOutput: every progress line announces a start
TransitionOutput_StartsEveryLine(m, stripped, t) ==
    IF StartsWith(stripped, PROGRESS_PREFIX)
    THEN CHOOSE out \in
           { << TransitionLine(op_name, "started", t) >>
             \o (IF Contains(stripped, "100%")
                 THEN << TransitionLine(op_name, "completed", t) >> ELSE <<>>) :
               op_name \in {OpName(LastProgress(stripped))} } : TRUE
    ELSE <<>>

\* lines 112-123: what a progress line prints, m the monitor before the line
TransitionOutput(m, stripped, t) ==
    IF StartsWith(stripped, PROGRESS_PREFIX)
    THEN CHOOSE out \in
           { (IF op_name # m.current_operation
              THEN << TransitionLine(op_name, "started", t) >> ELSE <<>>)
             \o (IF Contains(stripped, "100%")
                 THEN << TransitionLine(op_name, "completed", t) >> ELSE <<>>) :
               op_name \in {OpName(LastProgress(stripped))} } : TRUE
    ELSE <<>>

\* mutant of PassThrough: progress lines are passed through as well
PassThrough_Progress(line) == IF IsImportant(line) THEN << line >> ELSE <<>>

\* lines 128-129: important lines other than progress are passed through
PassThrough(line) ==
    IF IsImportant(line) /\ ~StartsWith(line, PROGRESS_PREFIX)
    THEN << line >> ELSE <<>>

\* lines 134-149: the periodic heartbeat line, m the monitor after the line
\* was classified
HeartbeatLine(m, t) ==
    HEARTBEAT_PREFIX \o " " \o Clock(t) \o " | "
    \o "output lines: " \o Str(m.line_count) \o " | "
    \o "elapsed: " \o Str(t - m.start_time) \o "s"
    \o (IF m.last_progress # "" THEN " | " \o m.last_progress ELSE "")
    \o (IF m.last_content_line # "" THEN " | last: " \o m.last_content_line ELSE "")
    \o "\n"

HeartbeatOutput(m, t) == IF HeartbeatDue(m, t) THEN << HeartbeatLine(m, t) >> ELSE <<>>

\* lines 108-150: what process_line prints in sparse mode
SparseOutput(m, line, stripped, t) ==
    TransitionOutput(m, stripped, t)
    \o PassThrough(line)
    \o HeartbeatOutput(SparseUpdate(Record(m, line), line, stripped), t)

\* OutputMonitor.process_line at second t: what it prints
process_line_output(m, line, t) ==
    IF m.full_output_mode THEN << line >>
    ELSE CHOOSE out \in { SparseOutput(m, line, stripped, t) :
                            stripped \in {Strip(line)} } : TRUE

\* OutputMonitor.dump_buffer: what it prints
dump_buffer(m) ==
    << "\n[automate-metashape-monitor] === Last " \o Str(Len(m.buffer))
         \o " lines before error ===\n" >>
    \o m.buffer
    \o << "[automate-metashape-monitor] === End error context ===\n\n" >>

\* OutputMonitor.print_summary at second t: what it prints
print_summary(m, exit_code, t) ==
    << "[automate-metashape-monitor] "
         \o (IF exit_code = 0 THEN "SUCCESS"
             ELSE "FAILED (exit code " \o Str(exit_code) \o ")")
         \o " | total output lines: " \o Str(m.line_count)
         \o " | elapsed: " \o Str(t - m.start_time) \o "s\n",
       "[automate-metashape-monitor] Full metashape output log saved to: "
         \o LogPath \o "\n" >>

\* mutant of close: the log file is left open
close_LeavesOpen(m) == m

\* OutputMonitor.close
close(m) == [ m EXCEPT !.log_closed = TRUE ]

\* ------------------------------------------------------------------- state
VARIABLES
    env,                  \* os.environ: the variables the wrapper reads
    max_retries,          \* LICENSE_MAX_RETRIES
    retry_interval,       \* LICENSE_RETRY_INTERVAL
    license_check_lines,  \* LICENSE_CHECK_LINES
    now,                  \* time.time(), in whole seconds
    wake,                 \* when the current time.sleep returns
    console,              \* stdout: what run_with_license_retry and the
                          \* monitor printed since the current attempt began
                          \* (before the first: since startup)
    handler_out,          \* stdout: what _signal_handler printed since then
                          \* (its place among the lines of console is not kept)
    monitor,              \* the OutputMonitor instance
    pc,                   \* where run_with_license_retry stands
    attempt,
    license_error,
    line_count,           \* the loop's own counter of checked lines
    child_process,        \* _child_process: the Popen handle, pid 0 = None
    procs,                \* the OS process table: one entry per spawned worker
    pipe,                 \* lines written by the current worker, not yet read
    read_lines,           \* history: lines read from the current worker
    processed,            \* history: lines handed to process_line this attempt
    processed_at,         \* history: the second each of them was handed over
    sleeps,               \* history: calls of time.sleep(retry_interval)
    nsignals,             \* history: signals delivered to the supervisor
    last_sig,             \* history: the last signal delivered (0 = none yet)
    waited,               \* history: workers whose wait() at line 312 returned
    worker_rc,            \* history: the code the current worker exited with
    worker_secs,          \* history: the seconds it had run when it exited
    exit_code,            \* argument of sys.exit
    exit_count,           \* history: calls of sys.exit
    stage,                \* the monitor on its own: "off", "used" or "reset"
    twin,                 \* a second OutputMonitor, constructed when the
                          \* first is reset and fed the same lines since
    twin_out,             \* stdout of the twin
    benchmark,            \* the BenchmarkMonitor instance
    fg,                   \* where the thread that entered monitor() stands
    api_call,             \* api_call_name of the scope
    start_time,           \* start_time of the scope
    op_exc,               \* the exception the wrapped call raised ("": none)
    raised,               \* the exception that left the scope ("": none)
    scopes,               \* history: scopes left so far
    stop_sampling,        \* threading.Event: is it set
    sampler,              \* where the sampling thread stands
    cpu_samples,
    gpu_samples,
    process_cpu_samples,
    memory_samples,
    joined,               \* history: how sampler.join returned
    at_stop,              \* history: the lengths of the lists when the event was set
    locals,               \* the values the finally block computes
    human_log,            \* rows appended to log_file
    yaml_log              \* lines written to yaml_log_path

vars == << env, max_retries, retry_interval, license_check_lines, now, wake,
           console, handler_out, monitor, pc, attempt,
           license_error, line_count, child_process, procs, pipe, read_lines,
           processed, processed_at, sleeps, nsignals, last_sig, waited,
           worker_rc, worker_secs,
           exit_code, exit_count, stage, twin, twin_out,
           benchmark, fg, api_call, start_time, op_exc, raised, scopes,
           stop_sampling, sampler, cpu_samples, gpu_samples,
           process_cpu_samples, memory_samples, joined, at_stop, locals,
           human_log, yaml_log >>

\* A BenchmarkMonitor and its monitoring scope.
telemetry == << benchmark, fg, api_call, start_time, op_exc, raised, scopes,
                stop_sampling, sampler, cpu_samples, gpu_samples,
                process_cpu_samples, memory_samples, joined, at_stop, locals,
                human_log, yaml_log >>

\* The monitor exercised on its own, apart from the supervisor.
harness == << stage, twin, twin_out >>

config == << env, max_retries, retry_interval, license_check_lines >>
history == << sleeps, exit_code, exit_count >>
workerlog == << waited, worker_rc, worker_secs >>

\* A worker process: running with its output open, running with its output
\* closed, exited but not waited for (zombie), or waited for (reaped).
NewProc == [ st |-> "running", rc |-> 0, sigs |-> {} ]
Alive(p) == p.st \in {"running", "closed"}
Exited(p) == p.st \in {"zombie", "reaped"}

Popen(pid) == [ pid |-> pid, returncode |-> 0, has_rc |-> FALSE ]
NoChild == Popen(0)

\* ------------------------------------------------------------- environment
\* An environment variable: unset, or set to a string.
Unset == [ set |-> FALSE, value |-> "" ]
SetTo(s) == [ set |-> TRUE, value |-> s ]

\* mutant of EnvInt: a value that does not parse falls back to the default
EnvInt_Lenient(e, default) ==
    IF e.set /\ ParseInt(e.value).ok
    THEN ParseInt(e.value)
    ELSE [ ok |-> TRUE, value |-> default ]

\* int(os.environ.get(name, default))
EnvInt(e, default) ==
    IF e.set THEN ParseInt(e.value) ELSE [ ok |-> TRUE, value |-> default ]

\* lines 242-244 and 47-48: the five settings as parsed
Parsed(e) ==
    [ max_retries         |-> EnvInt(e.LICENSE_MAX_RETRIES, DefaultMaxRetries),
      retry_interval      |-> EnvInt(e.LICENSE_RETRY_INTERVAL, DefaultRetryInterval),
      license_check_lines |-> EnvInt(e.LICENSE_CHECK_LINES, DefaultCheckLines),
      buffer_size         |-> EnvInt(e.LOG_BUFFER_SIZE, DefaultBufferSize),
      heartbeat_interval  |-> EnvInt(e.LOG_HEARTBEAT_INTERVAL, DefaultHeartbeatInterval) ]

\* lines 242-257 run without ValueError: every int() succeeds and
\* deque(maxlen) gets a capacity that is not negative
StartsUp(p) ==
    /\ p.max_retries.ok
    /\ p.retry_interval.ok
    /\ p.license_check_lines.ok
    /\ p.buffer_size.ok
    /\ p.heartbeat_interval.ok
    /\ p.buffer_size.value >= 0

\* ----------------------------------------------------------- the supervisor
\* mutant of HasLicenseError: the line is not lower-cased first
HasLicenseError_CaseSensitive(line) ==
    \/ Contains(line, "license not found")
    \/ Contains(line, "no license found")

\* the license failure signature test, lines 293-297
HasLicenseError(line) ==
    \E line_lower \in {Lower(line)} :
        \/ Contains(line_lower, "license not found")
        \/ Contains(line_lower, "no license found")

\* mutant of InCheckPhase: the window is one line too long
InCheckPhase_OneMore(lc, k) == lc <= k

\* mutant of InCheckPhase: every line is tested for the signature
InCheckPhase_Always(lc, k) == TRUE

\* mutant of InCheckPhase: every line goes to process_line
InCheckPhase_Never(lc, k) == FALSE

\* line 283: the line is inside the check window
InCheckPhase(lc, k) == lc < k

\* mutants of GiveUp
GiveUp_OffByOne(mr, att) == mr = 0 \/ (mr > 0 /\ att >= mr)

GiveUp_ZeroUnlimited(mr, att) == mr > 0 /\ att > mr

GiveUp_NegativeLimited(mr, att) == mr = 0 \/ att > mr

GiveUp_ZeroOnly(mr, att) == mr = 0

\* lines 316 and 322: the retry budget is spent
GiveUp(mr, att) == mr = 0 \/ (mr > 0 /\ att > mr)

\* mutants of PostAttempt
PostAttempt_ChildCode(le, mr, att, rc) ==
    IF le
    THEN IF GiveUp(mr, att)
         THEN [ next |-> "done",  code |-> rc ]
         ELSE [ next |-> "sleep", code |-> 0 ]
    ELSE [ next |-> "done", code |-> rc ]

PostAttempt_RetryOnFailure(le, mr, att, rc) ==
    IF le \/ rc # 0
    THEN IF GiveUp(mr, att)
         THEN [ next |-> "done",  code |-> 1 ]
         ELSE [ next |-> "sleep", code |-> 0 ]
    ELSE [ next |-> "done", code |-> rc ]

\* lines 314-339: what follows the end of an attempt
PostAttempt(le, mr, att, rc) ==
    IF le
    THEN IF GiveUp(mr, att)
         THEN [ next |-> "done",  code |-> 1 ]
         ELSE [ next |-> "sleep", code |-> 0 ]
    ELSE [ next |-> "done", code |-> rc ]

\* the status the operating system reports for sys.exit(code)
ExitStatus(code) == code % 256

\* Popen.poll(): reaps the worker if it has exited
Poll(cp, ps) ==
    IF cp.pid # 0 /\ ~cp.has_rc /\ ps[cp.pid].st = "zombie"
    THEN [ cp |-> [ cp EXCEPT !.returncode = ps[cp.pid].rc, !.has_rc = TRUE ],
           ps |-> [ ps EXCEPT ![cp.pid] = [ st |-> "reaped", rc |-> 0, sigs |-> {} ] ] ]
    ELSE [ cp |-> cp, ps |-> ps ]

\* Popen.send_signal(sig): polls, and signals the worker only if it still runs
SendSignal(cp, ps, sig) ==
    LET r == Poll(cp, ps)
    IN  IF r.cp.has_rc
        THEN r
        ELSE [ cp |-> r.cp,
               ps |-> [ r.ps EXCEPT ![cp.pid].sigs = @ \cup {sig} ] ]

\* mutant of WaitReturns: wait() does not block
WaitReturns_NoBlock(cp, ps) == TRUE

\* Popen.wait() may return: the worker has exited
WaitReturns(cp, ps) == cp.has_rc \/ ps[cp.pid].st = "zombie"

\* lines 265-278: next attempt, monitor reset, worker spawned
StartAttempt ==
    /\ pc = "start"
    /\ attempt < MaxAttempts
    /\ attempt' = attempt + 1
    /\ monitor' = Reset(monitor, now)
    /\ console' = << "[automate-metashape-license-wrapper] Starting Metashape workflow (attempt "
                       \o Str(attempt + 1) \o ")...\n" >>
    /\ handler_out' = <<>>
    /\ procs' = Append(procs, NewProc)
    /\ child_process' = Popen(Len(procs) + 1)
    /\ license_error' = FALSE
    /\ line_count' = 0
    /\ pipe' = <<>>
    /\ read_lines' = <<>>
    /\ processed' = <<>>
    /\ processed_at' = <<>>
    /\ pc' = "read"
    /\ worker_rc' = 0
    /\ worker_secs' = 0
    /\ UNCHANGED << telemetry, harness, config, now, wake, history, nsignals, last_sig, waited >>

\* lines 284 and 303-307: what the read loop prints for a check-window line
CheckPhaseOutput(line, lc, k) ==
    << line >>
    \o (IF ~HasLicenseError(line) /\ lc + 1 >= k
        THEN << "[automate-metashape-license-wrapper] License check passed, proceeding with workflow...\n" >>
        ELSE <<>>)

\* lines 281-310: the body of the read loop for one line
LoopBody(line) ==
    IF InCheckPhase(line_count, license_check_lines)
    THEN /\ monitor' = Record(monitor, line)
         /\ console' = console \o CheckPhaseOutput(line, line_count, license_check_lines)
         /\ UNCHANGED << processed, processed_at >>
         /\ IF HasLicenseError(line)
            THEN /\ license_error' = TRUE
                 /\ child_process' = SendSignal(child_process, procs, SIGTERM).cp
                 /\ procs' = SendSignal(child_process, procs, SIGTERM).ps
                 /\ line_count' = line_count
                 /\ pc' = "wait"
            ELSE /\ line_count' = line_count + 1
                 /\ UNCHANGED << license_error, child_process, procs, pc >>
    ELSE /\ monitor' = process_line(monitor, line, now)
         /\ console' = console \o process_line_output(monitor, line, now)
         /\ processed' = Append(processed, line)
         /\ processed_at' = Append(processed_at, now)
         /\ UNCHANGED << license_error, child_process, procs, line_count, pc >>

\* lines 280-310: one iteration of the read loop
ReadLine ==
    /\ pc = "read"
    /\ pipe # <<>>
    /\ pipe' = Tail(pipe)
    /\ read_lines' = Append(read_lines, Head(pipe))
    /\ LoopBody(Head(pipe))
    /\ UNCHANGED << telemetry, harness, config, now, wake, handler_out, attempt, history, nsignals, last_sig,
                    workerlog >>

\* line 280: the worker's output is at end of file
ReadEOF ==
    /\ pc = "read"
    /\ pipe = <<>>
    /\ procs[child_process.pid].st # "running"
    /\ pc' = "wait"
    /\ UNCHANGED << telemetry, harness, config, now, wake, console, handler_out, monitor, attempt, license_error,
                    line_count, child_process, procs, pipe, read_lines,
                    processed, processed_at, history, nsignals, last_sig, workerlog >>

\* mutant of PostOutput: the buffer is dumped whatever the return code
PostOutput_AlwaysDumps(m, le, mr, att, rc, ri, t) ==
    IF le
    THEN IF mr = 0
         THEN << "[automate-metashape-license-wrapper] No license available and retries disabled (LICENSE_MAX_RETRIES=0)\n" >>
         ELSE IF mr > 0 /\ att > mr
         THEN << "[automate-metashape-license-wrapper] Max retries ("
                   \o Str(mr) \o ") exceeded\n" >>
         ELSE << "[automate-metashape-license-wrapper] No license available. Waiting "
                   \o Str(ri) \o "s before retry...\n" >>
    ELSE dump_buffer(m) \o print_summary(m, rc, t)

\* lines 314-337: what the supervisor prints once wait() has returned
PostOutput(m, le, mr, att, rc, ri, t) ==
    IF le
    THEN IF mr = 0
         THEN << "[automate-metashape-license-wrapper] No license available and retries disabled (LICENSE_MAX_RETRIES=0)\n" >>
         ELSE IF mr > 0 /\ att > mr
         THEN << "[automate-metashape-license-wrapper] Max retries ("
                   \o Str(mr) \o ") exceeded\n" >>
         ELSE << "[automate-metashape-license-wrapper] No license available. Waiting "
                   \o Str(ri) \o "s before retry...\n" >>
    ELSE (IF rc # 0 THEN dump_buffer(m) ELSE <<>>) \o print_summary(m, rc, t)

\* lines 300/312-339: wait() returns, then retry, give up or finish
Wait ==
    /\ pc = "wait"
    /\ WaitReturns(child_process, procs)
    /\ LET r == Poll(child_process, procs)
           post == PostAttempt(license_error, max_retries, attempt, r.cp.returncode)
       IN  /\ child_process' = r.cp
           /\ procs' = r.ps
           /\ pc' = post.next
           /\ console' = console \o PostOutput(monitor, license_error, max_retries,
                                                attempt, r.cp.returncode,
                                                retry_interval, now)
           /\ IF post.next = "sleep"
              THEN /\ sleeps' = sleeps + 1
                   /\ wake' = now + retry_interval
                   /\ UNCHANGED << monitor, exit_code, exit_count >>
              ELSE /\ monitor' = close(monitor)
                   /\ exit_code' = post.code
                   /\ exit_count' = exit_count + 1
                   /\ UNCHANGED << sleeps, wake >>
    /\ waited' = waited + 1
    /\ UNCHANGED << telemetry, harness, config, now, handler_out, attempt, license_error, line_count,
                    pipe, read_lines, processed, processed_at, nsignals, last_sig, worker_rc,
                    worker_secs >>

\* line 329-330: time.sleep returns, continue
SleepReturn ==
    /\ pc = "sleep"
    /\ now >= wake
    /\ pc' = "start"
    /\ UNCHANGED << telemetry, harness, config, now, wake, console, handler_out, monitor, attempt, license_error,
                    line_count, child_process, procs, pipe, read_lines,
                    processed, processed_at, history, nsignals, last_sig, workerlog >>

\* mutant of ForwardedSignal: every signal is passed on as SIGTERM
ForwardedSignal_AlwaysTerm(signum) == SIGTERM

\* the signal the handler passes on, line 236
ForwardedSignal(signum) == signum

\* mutant of Signal: the handler reports through the monitor
Signal_ThroughMonitor(signum) ==
    /\ pc \notin {"boot", "crashed", "done"}
    /\ nsignals < MaxSignals
    /\ nsignals' = nsignals + 1
    /\ last_sig' = signum
    /\ child_process.pid # 0
    /\ child_process' = SendSignal(child_process, procs, signum).cp
    /\ procs' = SendSignal(child_process, procs, signum).ps
    /\ monitor' = [ monitor EXCEPT !.line_count = @ + 1 ]
    /\ UNCHANGED << telemetry, harness, config, now, wake, console, handler_out, pc, attempt,
                    license_error, line_count, pipe, read_lines, processed, processed_at,
                    history, workerlog >>

\* signal.Signals(signum).name
SignalName(signum) == IF signum = SIGTERM THEN "SIGTERM" ELSE "SIGINT"

\* line 235: what the handler prints when it forwards
SignalOutput(signum) ==
    << "[automate-metashape-license-wrapper] Received " \o SignalName(signum)
         \o ", forwarding to child process...\n" >>

\* mutant of Signal: the handler does not look whether a worker runs
Signal_Unconditional(signum) ==
    /\ pc \notin {"boot", "crashed", "done"}
    /\ nsignals < MaxSignals
    /\ nsignals' = nsignals + 1
    /\ last_sig' = signum
    /\ handler_out' = handler_out \o SignalOutput(signum)
    /\ IF child_process.pid # 0
       THEN LET s == SendSignal(child_process, procs, ForwardedSignal(signum))
            IN  /\ child_process' = s.cp
                /\ procs' = s.ps
       ELSE UNCHANGED << child_process, procs >>
    /\ UNCHANGED << telemetry, harness, config, now, wake, console, monitor, pc, attempt, license_error,
                    line_count, pipe, read_lines, processed, processed_at, history,
                    workerlog >>

\* lines 230-236: _signal_handler runs in the supervisor, from the moment
\* the handlers are installed (line 260) until the process exits
Signal(signum) ==
    /\ pc \notin {"boot", "crashed", "done"}
    /\ nsignals < MaxSignals
    /\ nsignals' = nsignals + 1
    /\ last_sig' = signum
    /\ IF child_process.pid # 0
       THEN LET r == Poll(child_process, procs)
            IN  IF ~r.cp.has_rc
                THEN LET s == SendSignal(r.cp, r.ps, ForwardedSignal(signum))
                     IN  /\ child_process' = s.cp
                         /\ procs' = s.ps
                         /\ handler_out' = handler_out \o SignalOutput(signum)
                ELSE /\ child_process' = r.cp
                     /\ procs' = r.ps
                     /\ handler_out' = handler_out
       ELSE UNCHANGED << child_process, procs, handler_out >>
    /\ UNCHANGED << telemetry, harness, config, now, wake, console, monitor, pc, attempt, license_error,
                    line_count, pipe, read_lines, processed, processed_at, history,
                    workerlog >>

\* ---------------------------------------------------------------- workers
\* the current worker writes a line
ChildEmit(line) ==
    /\ child_process.pid # 0
    /\ procs[child_process.pid].st = "running"
    /\ Len(read_lines) + Len(pipe) < MaxLines
    /\ pipe' = Append(pipe, line)
    /\ UNCHANGED << telemetry, harness, config, now, wake, console, handler_out, monitor, pc, attempt,
                    license_error, line_count, child_process, procs,
                    read_lines, processed, processed_at, history, nsignals, last_sig,
                    workerlog >>

\* a worker closes its output before it exits
ChildClose(pid) ==
    /\ procs[pid].st = "running"
    /\ procs' = [ procs EXCEPT ![pid].st = "closed" ]
    /\ UNCHANGED << telemetry, harness, config, now, wake, console, handler_out, monitor, pc, attempt,
                    license_error, line_count, child_process, pipe,
                    read_lines, processed, processed_at, history, nsignals, last_sig,
                    workerlog >>

\* a worker exits: by itself with a code, or killed by a signal it was sent
ChildExit(pid, rc) ==
    /\ Alive(procs[pid])
    /\ \/ rc \in RetCodes
       \/ \E s \in procs[pid].sigs : rc = -s
    /\ procs' = [ procs EXCEPT ![pid] = [ st |-> "zombie", rc |-> rc, sigs |-> {} ] ]
    /\ worker_rc' = IF pid = child_process.pid THEN rc ELSE worker_rc
    /\ worker_secs' = IF pid = child_process.pid
                      THEN now - monitor.start_time ELSE worker_secs
    /\ UNCHANGED << telemetry, harness, config, now, wake, console, handler_out, monitor, pc, attempt,
                    license_error, line_count, child_process, pipe,
                    read_lines, processed, processed_at, history, nsignals, last_sig,
                    waited >>

\* ------------------------------------------------------ startup and clock
\* lines 242-261: the settings are parsed and the monitor is constructed,
\* or int() or deque() raises ValueError and the process ends
Startup ==
    /\ pc = "boot"
    /\ \E p \in {Parsed(env)} :
          IF StartsUp(p)
          THEN /\ max_retries' = p.max_retries.value
               /\ retry_interval' = p.retry_interval.value
               /\ license_check_lines' = p.license_check_lines.value
               /\ monitor' = NewMonitor(p.buffer_size.value,
                                        p.heartbeat_interval.value, now)
               /\ console' = InitOutput(p.heartbeat_interval.value)
               /\ pc' = "start"
          ELSE /\ pc' = "crashed"
               /\ UNCHANGED << max_retries, retry_interval, license_check_lines,
                               monitor, console >>
    /\ UNCHANGED << telemetry, harness, env, now, wake, handler_out, attempt, license_error, line_count,
                    child_process, procs, pipe, read_lines, processed, processed_at,
                    history, nsignals, last_sig, workerlog >>

\* a second passes while the supervisor runs
Tick ==
    /\ pc \notin {"boot", "crashed", "done"}
    /\ now < MaxTime
    /\ now' = now + 1
    /\ UNCHANGED << telemetry, harness, config, wake, console, handler_out, monitor, pc, attempt, license_error,
                    line_count, child_process, procs, pipe, read_lines,
                    processed, processed_at, history, nsignals, last_sig, workerlog >>

\* ------------------------------------------------------- BenchmarkMonitor
\* CPU and GPU readings are whole numbers (percent, cores), memory readings
\* are in hundredths of a gigabyte; what the finally block rounds to one
\* decimal is kept in tenths.

\* None, where a number may stand (no reading is negative)
None == -1

\* None, where a text may stand
NoneText == "None"

\* a key the dict does not hold
Absent == "<absent>"

\* n / d rounded to the nearest whole number, a half to the even neighbour
RoundHalfEven(n, d) ==
    LET q == n \div d
        r == n % d
    IN  IF 2 * r < d THEN q
        ELSE IF 2 * r > d THEN q + 1
        ELSE IF q % 2 = 0 THEN q ELSE q + 1

RECURSIVE Sum(_)
Sum(s) == IF s = <<>> THEN 0 ELSE Head(s) + Sum(Tail(s))

\* round(sum(samples) / len(samples), 1), in tenths
Mean(samples) == RoundHalfEven(10 * Sum(samples), Len(samples))

\* max(...) and min(...)
Largest(S) == CHOOSE x \in S : \A y \in S : y <= x
Smallest(S) == CHOOSE x \in S : \A y \in S : x <= y

\* f"{s:>w}"
RECURSIVE PadLeft(_, _)
PadLeft(s, w) == IF Len(s) >= w THEN s ELSE PadLeft(" " \o s, w)

\* f"{s:<w}"
RECURSIVE PadRight(_, _)
PadRight(s, w) == IF Len(s) >= w THEN s ELSE PadRight(s \o " ", w)

\* f"{x}" and f"{x:.1f}" of a float with one decimal, x in tenths
Float1(x) == Str(x \div 10) \o "." \o Str(x % 10)

\* f"{x:.0f}", x in tenths
Float0(x) == Str(RoundHalfEven(x, 10))

\* _format_duration(seconds), the duration in tenths
FormatDuration(x) ==
    LET seconds == x \div 10
    IN  Pad2(seconds \div 3600) \o ":" \o Pad2((seconds % 3600) \div 60)
            \o ":" \o Pad2(seconds % 60)

\* what psutil.cpu_percent, _get_process_cpu_cores and pynvml may read
CpuReadings == {10, 35}
ProcessCpuReadings == {2}
GpuReadings(b) == IF b.gpu_available THEN {None, 80} ELSE {None}

\* _get_memory_metrics() in a container of 8 GB on a node of 16 GB
Snapshot(proc, used) ==
    [ proc_mem_gb        |-> proc,
      container_limit_gb |-> 800,
      container_used_gb  |-> used,
      container_avail_gb |-> 800 - used,
      sys_total_gb       |-> 1600,
      sys_used_gb        |-> used + 400,
      sys_avail_gb       |-> 1200 - used ]

MemReadings == { Snapshot(204, 604), Snapshot(312, 497) }

Column(samples, key) == { samples[i][key] : i \in 1..Len(samples) }

\* mutant of PeakMemory: the last sample stands for the whole scope
PeakMemory_Last(samples, current_mem) ==
    LET last == IF samples # <<>> THEN samples[Len(samples)] ELSE current_mem
    IN  [ proc_mem_peak_gb       |-> RoundHalfEven(last.proc_mem_gb, 10),
          container_limit_gb     |-> RoundHalfEven(last.container_limit_gb, 10),
          container_used_peak_gb |-> RoundHalfEven(last.container_used_gb, 10),
          container_avail_min_gb |-> RoundHalfEven(last.container_avail_gb, 10),
          sys_total_gb           |-> RoundHalfEven(last.sys_total_gb, 10),
          sys_used_peak_gb       |-> RoundHalfEven(last.sys_used_gb, 10),
          sys_avail_min_gb       |-> RoundHalfEven(last.sys_avail_gb, 10) ]

\* lines 317-351: the peaks of the memory samples, or of one snapshot taken
\* now when there is no sample, each rounded to one decimal
PeakMemory(samples, current_mem) ==
    IF samples # <<>>
    THEN [ proc_mem_peak_gb       |->
               RoundHalfEven(Largest(Column(samples, "proc_mem_gb")), 10),
           container_limit_gb     |->
               RoundHalfEven(samples[Len(samples)].container_limit_gb, 10),
           container_used_peak_gb |->
               RoundHalfEven(Largest(Column(samples, "container_used_gb")), 10),
           container_avail_min_gb |->
               RoundHalfEven(Smallest(Column(samples, "container_avail_gb")), 10),
           sys_total_gb           |->
               RoundHalfEven(samples[Len(samples)].sys_total_gb, 10),
           sys_used_peak_gb       |->
               RoundHalfEven(Largest(Column(samples, "sys_used_gb")), 10),
           sys_avail_min_gb       |->
               RoundHalfEven(Smallest(Column(samples, "sys_avail_gb")), 10) ]
    ELSE [ proc_mem_peak_gb       |-> RoundHalfEven(current_mem.proc_mem_gb, 10),
           container_limit_gb     |-> RoundHalfEven(current_mem.container_limit_gb, 10),
           container_used_peak_gb |-> RoundHalfEven(current_mem.container_used_gb, 10),
           container_avail_min_gb |-> RoundHalfEven(current_mem.container_avail_gb, 10),
           sys_total_gb           |-> RoundHalfEven(current_mem.sys_total_gb, 10),
           sys_used_peak_gb       |-> RoundHalfEven(current_mem.sys_used_gb, 10),
           sys_avail_min_gb       |-> RoundHalfEven(current_mem.sys_avail_gb, 10) ]

NoPeak == PeakMemory(<<>>, Snapshot(0, 0))

\* _get_system_info() on a node with or without a GPU; os.cpu_count() is
\* None where the number of CPUs cannot be determined
Info(cores, gpus) ==
    [ node                |-> "node1",
      cpu_cores_available |-> cores,
      gpu_count           |-> Str(gpus),
      gpu_model           |-> IF gpus = 0 THEN "" ELSE "GPU" ]

SystemInfos == { Info(NoneText, 0), Info("8", 1) }

\* {}: no get_system_info_fn was given
EmptyInfo ==
    [ node |-> Absent, cpu_cores_available |-> Absent,
      gpu_count |-> Absent, gpu_model |-> Absent ]

\* dict.get(key, default), dict.get(key) and dict.get(key) or default
Get(v, default) == IF v = Absent THEN default ELSE v
GetOrNone(v) == Get(v, NoneText)
GetOr(v, default) == IF GetOrNone(v) \in {NoneText, ""} THEN default ELSE v

\* format(v, ">4"): None does not take a format specification (TypeError)
Formattable(v) == v # NoneText

\* the locals of the finally block
NoLocals ==
    [ duration |-> 0, cpu_percent |-> 0, gpu_percent |-> None,
      process_cpu_cores |-> 0, peak_memory |-> NoPeak, system_info |-> EmptyInfo ]

\* lines 393-396: the node columns of the table
NodeColumns(info) ==
    [ cpu_cores_available |-> Get(info.cpu_cores_available, "N/A"),
      gpu_count           |-> Get(info.gpu_count, "N/A"),
      gpu_model           |-> GetOr(info.gpu_model, "N/A"),
      node_name           |-> Get(info.node, "N/A") ]

\* line 413: formatting the row raises TypeError
HumanLogRaises(info) ==
    \E key \in {"cpu_cores_available", "gpu_count", "node_name"} :
        ~Formattable(NodeColumns(info)[key])

\* lines 387-414: the row _write_human_log appends
HumanLogRow(step, name, r) ==
    LET p == r.peak_memory
        c == NodeColumns(r.system_info)
        gpu_str == IF r.gpu_percent # None
                   THEN PadLeft(Float0(r.gpu_percent), 3) ELSE "N/A"
    IN  PadRight(step, 23) \o " | " \o PadRight(name, 35) \o " | "
        \o FormatDuration(r.duration) \o " | "
        \o PadLeft(PadLeft(Float0(r.cpu_percent), 3), 5) \o " | "
        \o PadLeft(gpu_str, 5) \o " | "
        \o PadLeft(PadLeft(Float1(r.process_cpu_cores), 4), 9) \o " | "
        \o PadLeft(Float1(p.proc_mem_peak_gb), 6) \o " | "
        \o PadLeft(Float1(p.container_limit_gb), 6) \o " | "
        \o PadLeft(Float1(p.container_used_peak_gb), 6) \o " | "
        \o PadLeft(Float1(p.container_avail_min_gb), 6) \o " | "
        \o PadLeft(Float1(p.sys_total_gb), 6) \o " | "
        \o PadLeft(Float1(p.sys_used_peak_gb), 6) \o " | "
        \o PadLeft(Float1(p.sys_avail_min_gb), 6) \o " | "
        \o PadLeft(c.cpu_cores_available, 4) \o " | "
        \o PadLeft(c.gpu_count, 4) \o " | "
        \o PadRight(c.gpu_model, 15) \o " | "
        \o PadRight(c.node_name, 15) \o "\n"

\* lines 428-440: None is written as null
Null(v) == IF v = NoneText THEN "null" ELSE v

\* mutant of YamlEntry: a GPU utilisation that is None is left out
YamlEntry_OmitsNull(name, r) ==
    LET p == r.peak_memory
        info == r.system_info
    IN  << "  - api_call: " \o name \o "\n",
           "    duration_seconds: " \o Float1(r.duration) \o "\n",
           "    cpu_percent: " \o Float1(r.cpu_percent) \o "\n" >>
        \o (IF r.gpu_percent # None
            THEN << "    gpu_percent: " \o Float1(r.gpu_percent) \o "\n" >>
            ELSE <<>>)
        \o << "    cpu_cores_used: " \o Float1(r.process_cpu_cores) \o "\n",
              "    cpu_cores_available: "
                  \o Null(GetOrNone(info.cpu_cores_available)) \o "\n",
              "    proc_mem_peak_gb: " \o Float1(p.proc_mem_peak_gb) \o "\n",
              "    container_limit_gb: " \o Float1(p.container_limit_gb) \o "\n",
              "    container_used_peak_gb: " \o Float1(p.container_used_peak_gb) \o "\n",
              "    container_avail_min_gb: " \o Float1(p.container_avail_min_gb) \o "\n",
              "    sys_total_gb: " \o Float1(p.sys_total_gb) \o "\n",
              "    sys_used_peak_gb: " \o Float1(p.sys_used_peak_gb) \o "\n",
              "    sys_avail_min_gb: " \o Float1(p.sys_avail_min_gb) \o "\n",
              "    gpu_count: " \o Null(GetOrNone(info.gpu_count)) \o "\n",
              "    gpu_model: " \o Null(GetOrNone(info.gpu_model)) \o "\n",
              "    node_name: " \o Null(GetOrNone(info.node)) \o "\n" >>

\* lines 442-465: the lines _write_yaml_log appends
YamlEntry(name, r) ==
    LET p == r.peak_memory
        info == r.system_info
    IN  << "  - api_call: " \o name \o "\n",
           "    duration_seconds: " \o Float1(r.duration) \o "\n",
           "    cpu_percent: " \o Float1(r.cpu_percent) \o "\n",
           "    gpu_percent: "
               \o (IF r.gpu_percent # None THEN Float1(r.gpu_percent) ELSE "null")
               \o "\n",
           "    cpu_cores_used: " \o Float1(r.process_cpu_cores) \o "\n",
           "    cpu_cores_available: "
               \o Null(GetOrNone(info.cpu_cores_available)) \o "\n",
           "    proc_mem_peak_gb: " \o Float1(p.proc_mem_peak_gb) \o "\n",
           "    container_limit_gb: " \o Float1(p.container_limit_gb) \o "\n",
           "    container_used_peak_gb: " \o Float1(p.container_used_peak_gb) \o "\n",
           "    container_avail_min_gb: " \o Float1(p.container_avail_min_gb) \o "\n",
           "    sys_total_gb: " \o Float1(p.sys_total_gb) \o "\n",
           "    sys_used_peak_gb: " \o Float1(p.sys_used_peak_gb) \o "\n",
           "    sys_avail_min_gb: " \o Float1(p.sys_avail_min_gb) \o "\n",
           "    gpu_count: " \o Null(GetOrNone(info.gpu_count)) \o "\n",
           "    gpu_model: " \o Null(GetOrNone(info.gpu_model)) \o "\n",
           "    node_name: " \o Null(GetOrNone(info.node)) \o "\n" >>

\* everything of the supervisor but the clock
wrapper == << harness, config, wake, console, handler_out, monitor, pc, attempt,
              license_error, line_count, child_process, procs, pipe,
              read_lines, processed, processed_at, history, nsignals,
              last_sig, workerlog >>

samples == << cpu_samples, gpu_samples, process_cpu_samples, memory_samples >>
logs == << human_log, yaml_log >>

\* len() of the four sample lists
Lengths == << Len(cpu_samples), Len(gpu_samples), Len(process_cpu_samples),
              Len(memory_samples) >>
outcome == << op_exc, raised, scopes >>

\* the foreground is computing the aggregates from the sample lists
Aggregating == {"cpu_percent", "gpu_percent", "process_cpu_cores", "peak_memory"}

\* lines 260-296: `with benchmark.monitor(name):` is entered. The lists and
\* the event are new objects; a sampler of an earlier scope that is still
\* running keeps its own, which nothing reads any more, and is left out.
Enter(name) ==
    /\ fg = "out"
    /\ api_call' = name
    /\ cpu_samples' = <<>>
    /\ gpu_samples' = <<>>
    /\ process_cpu_samples' = <<>>
    /\ memory_samples' = <<>>
    /\ stop_sampling' = FALSE
    /\ sampler' = "test"
    /\ start_time' = now
    /\ fg' = "body"
    /\ op_exc' = ""
    /\ raised' = ""
    /\ joined' = ""
    /\ at_stop' = <<0, 0, 0, 0>>
    /\ locals' = NoLocals
    /\ UNCHANGED << benchmark, logs, scopes, now, wrapper >>

\* what the wrapped call may raise ("": it returns)
Outcomes == {"", "RuntimeError"}

\* line 296: the wrapped call returns or raises
BodyEnds(exc) ==
    /\ fg = "body"
    /\ op_exc' = exc
    /\ fg' = "finally"
    /\ UNCHANGED << benchmark, api_call, start_time, raised, scopes, stop_sampling,
                    sampler, samples, joined, at_stop, locals, logs, now, wrapper >>

\* mutant of SetStop: the event is not set
SetStop_NoSignal ==
    /\ fg = "finally"
    /\ at_stop' = Lengths
    /\ fg' = "join"
    /\ UNCHANGED << benchmark, api_call, start_time, outcome, stop_sampling, sampler,
                    samples, joined, locals, logs, now, wrapper >>

\* line 299: stop_sampling.set()
SetStop ==
    /\ fg = "finally"
    /\ stop_sampling' = TRUE
    /\ at_stop' = Lengths
    /\ fg' = "join"
    /\ UNCHANGED << benchmark, api_call, start_time, outcome, sampler, samples,
                    joined, locals, logs, now, wrapper >>

\* line 300: the seconds sampler.join waits at most
JoinSeconds == 2

\* lines 301-304: end_time and duration
Duration == 10 * (now - start_time)

\* line 300: sampler.join(timeout=2.0) returns because the thread has ended
Join ==
    /\ fg = "join"
    /\ sampler = "done"
    /\ joined' = "ended"
    /\ locals' = [locals EXCEPT !.duration = Duration]
    /\ fg' = "cpu_percent"
    /\ UNCHANGED << benchmark, api_call, start_time, outcome, stop_sampling, sampler,
                    samples, at_stop, logs, now, wrapper >>

\* line 300: sampler.join(timeout=2.0) returns after 2 seconds, the thread
\* still being inside a reading of its last iteration
JoinTimeout ==
    /\ fg = "join"
    /\ sampler \notin {"done", "wait", "test"}
    /\ joined' = "timeout"
    /\ now' = now + JoinSeconds
    /\ locals' = [locals EXCEPT !.duration = 10 * (now' - start_time)]
    /\ fg' = "cpu_percent"
    /\ UNCHANGED << benchmark, api_call, start_time, outcome, stop_sampling, sampler,
                    samples, at_stop, logs, wrapper >>

\* lines 305-307
AggregateCpu ==
    /\ fg = "cpu_percent"
    /\ locals' = [locals EXCEPT !.cpu_percent =
                      IF cpu_samples # <<>> THEN Mean(cpu_samples) ELSE 0]
    /\ fg' = "gpu_percent"
    /\ UNCHANGED << benchmark, api_call, start_time, outcome, stop_sampling, sampler,
                    samples, joined, at_stop, logs, now, wrapper >>

\* mutant of AggregateGpu: the mean is taken over all iterations
AggregateGpu_OverIterations ==
    /\ fg = "gpu_percent"
    /\ locals' = [locals EXCEPT !.gpu_percent =
                      IF gpu_samples # <<>>
                      THEN RoundHalfEven(10 * Sum(gpu_samples), Len(cpu_samples))
                      ELSE None]
    /\ fg' = "process_cpu_cores"
    /\ UNCHANGED << benchmark, api_call, start_time, outcome, stop_sampling, sampler,
                    samples, joined, at_stop, logs, now, wrapper >>

\* lines 308-310
AggregateGpu ==
    /\ fg = "gpu_percent"
    /\ locals' = [locals EXCEPT !.gpu_percent =
                      IF gpu_samples # <<>> THEN Mean(gpu_samples) ELSE None]
    /\ fg' = "process_cpu_cores"
    /\ UNCHANGED << benchmark, api_call, start_time, outcome, stop_sampling, sampler,
                    samples, joined, at_stop, logs, now, wrapper >>

\* lines 311-315
AggregateProcessCpu ==
    /\ fg = "process_cpu_cores"
    /\ locals' = [locals EXCEPT !.process_cpu_cores =
                      IF process_cpu_samples # <<>>
                      THEN Mean(process_cpu_samples) ELSE 0]
    /\ fg' = "peak_memory"
    /\ UNCHANGED << benchmark, api_call, start_time, outcome, stop_sampling, sampler,
                    samples, joined, at_stop, logs, now, wrapper >>

\* lines 317-351
AggregateMemory(current_mem) ==
    /\ fg = "peak_memory"
    /\ locals' = [locals EXCEPT !.peak_memory =
                      PeakMemory(memory_samples, current_mem)]
    /\ fg' = "system_info"
    /\ UNCHANGED << benchmark, api_call, start_time, outcome, stop_sampling, sampler,
                    samples, joined, at_stop, logs, now, wrapper >>

\* line 354: a fresh system info, or {} without get_system_info_fn
GetSystemInfo(info) ==
    /\ fg = "system_info"
    /\ locals' = [locals EXCEPT !.system_info =
                      IF benchmark.has_system_info_fn THEN info ELSE EmptyInfo]
    /\ fg' = "human_log"
    /\ UNCHANGED << benchmark, api_call, start_time, outcome, stop_sampling, sampler,
                    samples, joined, at_stop, logs, now, wrapper >>

\* lines 357-365: _write_human_log appends the row; an exception raised
\* while the row is formatted leaves the finally block and the scope
WriteHumanLog ==
    /\ fg = "human_log"
    /\ IF HumanLogRaises(locals.system_info)
       THEN /\ raised' = "TypeError"
            /\ scopes' = scopes + 1
            /\ fg' = "out"
            /\ UNCHANGED human_log
       ELSE /\ human_log' = Append(human_log,
                HumanLogRow(benchmark.current_step, api_call, locals))
            /\ fg' = "yaml_log"
            /\ UNCHANGED << raised, scopes >>
    /\ UNCHANGED << benchmark, api_call, start_time, op_exc, stop_sampling, sampler,
                    samples, joined, at_stop, locals, yaml_log, now, wrapper >>

\* lines 366-374: _write_yaml_log appends the entry; the finally block ends
\* and the exception of the wrapped call, if any, goes on to the caller
WriteYamlLog ==
    /\ fg = "yaml_log"
    /\ yaml_log' = yaml_log \o YamlEntry(api_call, locals)
    /\ raised' = op_exc
    /\ scopes' = scopes + 1
    /\ fg' = "out"
    /\ UNCHANGED << benchmark, api_call, start_time, op_exc, stop_sampling, sampler,
                    samples, joined, at_stop, locals, human_log, now, wrapper >>

\* everything of the scope but the sampler's position and lists
foreground == << benchmark, fg, api_call, start_time, outcome, stop_sampling,
                 joined, at_stop, locals, logs >>

\* mutant of SamplerTest: the event is not looked at
SamplerTest_IgnoresEvent ==
    /\ sampler = "test"
    /\ Len(cpu_samples) < MaxSamples
    /\ sampler' = "cpu_percent"
    /\ UNCHANGED << foreground, samples, now, wrapper >>

\* line 269: while not stop_sampling.is_set()
SamplerTest ==
    /\ sampler = "test"
    /\ IF stop_sampling THEN sampler' = "done"
       ELSE /\ Len(cpu_samples) < MaxSamples
            /\ sampler' = "cpu_percent"
    /\ UNCHANGED << foreground, samples, now, wrapper >>

\* lines 271-272
SampleCpu(cpu_percent) ==
    /\ sampler = "cpu_percent"
    /\ cpu_samples' = Append(cpu_samples, cpu_percent)
    /\ sampler' = "gpu_util"
    /\ UNCHANGED << foreground, gpu_samples, process_cpu_samples, memory_samples,
                    now, wrapper >>

\* lines 275-277: a failed or missing GPU reading is not recorded
SampleGpu(gpu_util) ==
    /\ sampler = "gpu_util"
    /\ gpu_samples' = IF gpu_util # None THEN Append(gpu_samples, gpu_util)
                      ELSE gpu_samples
    /\ sampler' = "process_cpu"
    /\ UNCHANGED << foreground, cpu_samples, process_cpu_samples, memory_samples,
                    now, wrapper >>

\* lines 280-281
SampleProcessCpu(process_cpu) ==
    /\ sampler = "process_cpu"
    /\ process_cpu_samples' = Append(process_cpu_samples, process_cpu)
    /\ sampler' = "mem_metrics"
    /\ UNCHANGED << foreground, cpu_samples, gpu_samples, memory_samples,
                    now, wrapper >>

\* lines 284-285
SampleMemory(mem_metrics) ==
    /\ sampler = "mem_metrics"
    /\ memory_samples' = Append(memory_samples, mem_metrics)
    /\ sampler' = "wait"
    /\ UNCHANGED << foreground, cpu_samples, gpu_samples, process_cpu_samples,
                    now, wrapper >>

\* line 288: stop_sampling.wait(timeout=1.0) returns at once when the event
\* is set, and after a second when it is not
SamplerWait ==
    /\ sampler = "wait"
    /\ now' = IF stop_sampling THEN now ELSE now + 1
    /\ sampler' = "test"
    /\ UNCHANGED << foreground, samples, wrapper >>

\* One step of the sampling thread.
Sampler ==
    \/ SamplerTest
    \/ \E cpu_percent \in CpuReadings : SampleCpu(cpu_percent)
    \/ \E gpu_util \in GpuReadings(benchmark) : SampleGpu(gpu_util)
    \/ \E process_cpu \in ProcessCpuReadings : SampleProcessCpu(process_cpu)
    \/ \E mem_metrics \in MemReadings : SampleMemory(mem_metrics)
    \/ SamplerWait

\* lines 82-113: a BenchmarkMonitor as constructed
NewBenchmark(gpu, fn) ==
    [ gpu_available |-> gpu, has_system_info_fn |-> fn, current_step |-> "" ]

\* no scope has been entered
Unmonitored ==
    /\ fg = "out"
    /\ api_call = ""
    /\ start_time = 0
    /\ op_exc = ""
    /\ raised = ""
    /\ scopes = 0
    /\ stop_sampling = FALSE
    /\ sampler = "idle"
    /\ cpu_samples = <<>>
    /\ gpu_samples = <<>>
    /\ process_cpu_samples = <<>>
    /\ memory_samples = <<>>
    /\ joined = ""
    /\ at_stop = <<0, 0, 0, 0>>
    /\ locals = NoLocals
    /\ human_log = <<>>
    /\ yaml_log = <<"api_calls:\n">>

\* the supervisor runs without a BenchmarkMonitor of its own
NoTelemetry ==
    /\ benchmark = NewBenchmark(FALSE, FALSE)
    /\ Unmonitored

\* ------------------------------------------------------------ specification
\* The state before the supervisor has done anything.
Boot(e) ==
    /\ env = e
    /\ max_retries = 0
    /\ retry_interval = 0
    /\ license_check_lines = 0
    /\ monitor = NewMonitor(0, 0, 0)
    /\ console = <<>>
    /\ pc = "boot"

\* The state when the retry loop is entered (line 263), lines 242-261 having
\* run without error.
Configured(e) ==
    /\ env = e
    /\ StartsUp(Parsed(e))
    /\ max_retries = Parsed(e).max_retries.value
    /\ retry_interval = Parsed(e).retry_interval.value
    /\ license_check_lines = Parsed(e).license_check_lines.value
    /\ monitor = NewMonitor(Parsed(e).buffer_size.value,
                            Parsed(e).heartbeat_interval.value, 0)
    /\ console = InitOutput(Parsed(e).heartbeat_interval.value)
    /\ pc = "start"

\* Nothing spawned, read, slept or signalled yet.
Idle ==
    /\ now = 0
    /\ handler_out = <<>>
    /\ wake = 0
    /\ attempt = 0
    /\ license_error = FALSE
    /\ line_count = 0
    /\ child_process = NoChild
    /\ procs = <<>>
    /\ pipe = <<>>
    /\ read_lines = <<>>
    /\ processed = <<>>
    /\ processed_at = <<>>
    /\ sleeps = 0
    /\ nsignals = 0
    /\ last_sig = 0
    /\ waited = 0
    /\ worker_rc = 0
    /\ worker_secs = 0
    /\ exit_code = 0
    /\ exit_count = 0

\* No monitor is exercised on its own.
NoHarness ==
    /\ stage = "off"
    /\ twin = NewMonitor(0, 0, 0)
    /\ twin_out = <<>>

IntStrings(S) == { SetTo(Str(n)) : n \in S }

\* Well-formed environments, one per configuration explored: every retry
\* budget in sparse mode under the default heartbeat interval, and full output
\* mode (interval 0) with at most one retry.
Envs ==
    [ LICENSE_MAX_RETRIES    : IntStrings(-1..MaxRetries),
      LICENSE_RETRY_INTERVAL : IntStrings({0}),
      LICENSE_CHECK_LINES    : IntStrings(0..MaxCheckLines),
      LOG_BUFFER_SIZE        : IntStrings(1..MaxBufferSize),
      LOG_HEARTBEAT_INTERVAL : IntStrings({DefaultHeartbeatInterval}) ]
    \cup
    [ LICENSE_MAX_RETRIES    : IntStrings({0, 1}),
      LICENSE_RETRY_INTERVAL : IntStrings({0}),
      LICENSE_CHECK_LINES    : IntStrings(0..MaxCheckLines),
      LOG_BUFFER_SIZE        : IntStrings(1..MaxBufferSize),
      LOG_HEARTBEAT_INTERVAL : IntStrings({0}) ]

\* The buffer of capacity 0, explored without retries.
EdgeEnvs ==
    [ LICENSE_MAX_RETRIES    : IntStrings({0}),
      LICENSE_RETRY_INTERVAL : IntStrings({0}),
      LICENSE_CHECK_LINES    : IntStrings(0..MaxCheckLines),
      LOG_BUFFER_SIZE        : IntStrings({0}),
      LOG_HEARTBEAT_INTERVAL : IntStrings({0, DefaultHeartbeatInterval}) ]

Init ==
    /\ \E e \in Envs \cup EdgeEnvs : Configured(e)
    /\ Idle
    /\ NoHarness
    /\ NoTelemetry

Next ==
    \/ StartAttempt
    \/ ReadLine
    \/ ReadEOF
    \/ Wait
    \/ SleepReturn
    \/ \E signum \in Signals : Signal(signum)
    \/ \E line \in WorkerLines : ChildEmit(line)
    \/ \E pid \in 1..Len(procs) : ChildClose(pid)
    \/ \E pid \in 1..Len(procs), rc \in RetCodes \cup {-SIGTERM, -SIGINT} :
          ChildExit(pid, rc)

Spec == Init /\ [][Next]_vars

\* Environments as the operator may leave them: variables unset, set to a
\* number, or set to something int() rejects.
BootEnvs ==
    [ LICENSE_MAX_RETRIES    : {Unset, SetTo("1"), SetTo("many")},
      LICENSE_RETRY_INTERVAL : {Unset, SetTo("0"), SetTo("5m")},
      LICENSE_CHECK_LINES    : {Unset, SetTo("1"), SetTo("")},
      LOG_BUFFER_SIZE        : {Unset, SetTo("-1")},
      LOG_HEARTBEAT_INTERVAL : {Unset, SetTo("off")} ]

BootInit ==
    /\ \E e \in BootEnvs : Boot(e)
    /\ Idle
    /\ NoHarness
    /\ NoTelemetry

BootNext == Startup \/ Next

\* The supervisor from the moment it is started.
BootSpec == BootInit /\ [][BootNext]_vars

\* Sparse mode with a heartbeat every second, one retry a second after a
\* license failure.
TimedEnvs ==
    [ LICENSE_MAX_RETRIES    : IntStrings({1}),
      LICENSE_RETRY_INTERVAL : IntStrings({1}),
      LICENSE_CHECK_LINES    : IntStrings(0..MaxCheckLines),
      LOG_BUFFER_SIZE        : IntStrings({1}),
      LOG_HEARTBEAT_INTERVAL : IntStrings({1}) ]

TimedInit ==
    /\ \E e \in TimedEnvs : Configured(e)
    /\ Idle
    /\ NoHarness
    /\ NoTelemetry

\* no signal arrives; the worker ends by itself
TimedNext ==
    \/ Tick
    \/ StartAttempt
    \/ ReadLine
    \/ ReadEOF
    \/ Wait
    \/ SleepReturn
    \/ \E line \in WorkerLines : ChildEmit(line)
    \/ \E pid \in 1..Len(procs) : ChildClose(pid)
    \/ \E pid \in 1..Len(procs), rc \in RetCodes : ChildExit(pid, rc)

\* The supervisor while the clock advances.
TimedSpec == TimedInit /\ [][TimedNext]_vars

\* ---------------------------------------------------- a monitoring scope
ApiCalls == {"matchPhotos"}

ScopeInit ==
    /\ \E gpu \in BOOLEAN, fn \in BOOLEAN : benchmark = NewBenchmark(gpu, fn)
    /\ Unmonitored
    /\ Configured([ LICENSE_MAX_RETRIES    |-> Unset,
                    LICENSE_RETRY_INTERVAL |-> Unset,
                    LICENSE_CHECK_LINES    |-> Unset,
                    LOG_BUFFER_SIZE        |-> Unset,
                    LOG_HEARTBEAT_INTERVAL |-> Unset ])
    /\ Idle
    /\ NoHarness

\* One step of the thread that runs the monitored call.
Foreground ==
    \/ \E name \in ApiCalls : scopes = 0 /\ Enter(name)
    \/ \E exc \in Outcomes : BodyEnds(exc)
    \/ SetStop
    \/ Join
    \/ JoinTimeout
    \/ AggregateCpu
    \/ AggregateGpu
    \/ AggregateProcessCpu
    \/ \E current_mem \in MemReadings : AggregateMemory(current_mem)
    \/ \E info \in SystemInfos : GetSystemInfo(info)
    \/ WriteHumanLog
    \/ WriteYamlLog

ScopeNext == Foreground \/ Sampler

\* One monitored call and its sampling thread.
ScopeSpec == ScopeInit /\ [][ScopeNext]_vars

\* ------------------------------------------- successive runs of a project
\* lines 82-113: a later run of the same project constructs its
\* BenchmarkMonitor on the two paths of the earlier run. The structured log
\* is opened with "w" and gets its header; the human-readable log is not
\* touched. The sampling thread of the earlier run ended with its process.
Construct(gpu, fn) ==
    /\ fg = "out"
    /\ benchmark' = NewBenchmark(gpu, fn)
    /\ yaml_log' = << "api_calls:\n" >>
    /\ sampler' = "idle"
    /\ UNCHANGED << fg, api_call, start_time, outcome, stop_sampling, samples,
                    joined, at_stop, locals, human_log, now, wrapper >>

ProjectNext ==
    \/ ScopeNext
    \/ \E gpu \in BOOLEAN, fn \in BOOLEAN : Construct(gpu, fn)

\* A monitored call of one run, and the runs that follow it.
ProjectSpec == ScopeInit /\ [][ProjectNext]_vars

\* ------------------------------------------------- the monitor on its own
\* Lines fed to a monitor on its own: plain, progress (also indented),
\* already marked important.
MonitorLines ==
    { "Loading photos\n",
      "[automate-metashape-progress] matchPhotos: 50%\n",
      "  [automate-metashape-progress] alignCameras: 100%\n",
      "[automate-metashape-monitor] note\n" }

\* the supervisor's variables that a monitor on its own leaves alone
elsewhere == << telemetry, config, wake, handler_out, pc, attempt, license_error,
                line_count, child_process, procs, pipe, read_lines, processed, processed_at,
                history, nsignals, last_sig, workerlog >>

\* monitor.process_line(line), repeated on the twin once there is one
Feed(line) ==
    /\ stage \in {"used", "reset"}
    /\ monitor.line_count < MaxLines
    /\ monitor' = process_line(monitor, line, now)
    /\ console' = console \o process_line_output(monitor, line, now)
    /\ IF stage = "reset"
       THEN /\ twin' = process_line(twin, line, now)
            /\ twin_out' = twin_out \o process_line_output(twin, line, now)
       ELSE UNCHANGED << twin, twin_out >>
    /\ UNCHANGED << elsewhere, now, stage >>

\* lines 284-290: a line recorded the way the check window records it
FeedInline(line) ==
    /\ stage \in {"used", "reset"}
    /\ monitor.line_count < MaxLines
    /\ monitor' = Record(monitor, line)
    /\ console' = console \o << line >>
    /\ IF stage = "reset"
       THEN /\ twin' = Record(twin, line)
            /\ twin_out' = twin_out \o << line >>
       ELSE UNCHANGED << twin, twin_out >>
    /\ UNCHANGED << elsewhere, now, stage >>

\* monitor.reset(), and at the same moment a new OutputMonitor with the same
\* settings; what either prints is collected from here on
ResetNow ==
    /\ stage = "used"
    /\ stage' = "reset"
    /\ monitor' = Reset(monitor, now)
    /\ console' = <<>>
    /\ twin' = NewMonitor(monitor.buffer_size, monitor.heartbeat_interval, now)
    /\ twin_out' = <<>>
    /\ UNCHANGED << elsewhere, now >>

MonitorEnvs ==
    [ LICENSE_MAX_RETRIES    : IntStrings({0}),
      LICENSE_RETRY_INTERVAL : IntStrings({0}),
      LICENSE_CHECK_LINES    : IntStrings({0}),
      LOG_BUFFER_SIZE        : IntStrings(0..MaxBufferSize),
      LOG_HEARTBEAT_INTERVAL : IntStrings({0, 1, DefaultHeartbeatInterval}) ]

MonitorInit ==
    /\ \E e \in MonitorEnvs : Configured(e)
    /\ Idle
    /\ stage = "used"
    /\ twin = NewMonitor(0, 0, 0)
    /\ twin_out = <<>>
    /\ NoTelemetry

MonitorNext ==
    \/ Tick
    \/ ResetNow
    \/ \E line \in MonitorLines : Feed(line)
    \/ \E line \in MonitorLines : FeedInline(line)

MonitorSpec == MonitorInit /\ [][MonitorNext]_vars

\* --------------------------------------------- the classification of lines
\* Lines handed to process_line, as << leading whitespace, text, line end >>:
\* ordinary output (one longer than LastContentMax), lines with each of the
\* marker prefixes, and marker lines that are indented.
LineParts ==
    { << "", "Loading photos", "\n" >>,
      << "  ", "Processing image 0001 of 0100: detecting key points, matching against neighbours, refining the estimate [100]tail", " \n" >>,
      << "", "[automate-metashape-monitor] note", "\n" >>,
      << "", "[automate-metashape-license-wrapper] Waiting", "\n" >>,
      << "", "[automate-metashape-heartbeat] child", "\n" >>,
      << "  ", "[automate-metashape-monitor] note", "\n" >>,
      << "", "[automate-metashape-progress] matchPhotos: 100%", "\n" >>,
      << "  ", "[automate-metashape-progress] alignCameras: 50%", "\n" >> }

ClassifyNext ==
    \/ Tick
    \/ \E line \in { p[1] \o p[2] \o p[3] : p \in LineParts } : Feed(line)

\* A monitor on its own that is handed lines of every kind.
ClassifySpec == MonitorInit /\ [][ClassifyNext]_vars

\* ------------------------------------------------------------------ claims
CurrentProc == procs[child_process.pid]

\* The lines of WorkerLines that carry the failure signature.
IsSignatureLine(line) ==
    line \in { "Error: License Not Found\n", "No license found.\n" }

\* C1: with max_retries = N > 0 the run makes at most N retries, each
\* preceded by exactly one sleep; when every attempt is a license failure it
\* ends after N + 1 workers and N sleeps with exit code 1 (no sleep after the
\* last failure); when a retry succeeds, sleeps = attempts - 1 and the exit
\* code is 0.
C1_RetryBudget ==
    max_retries > 0 =>
        /\ attempt <= max_retries + 1
        /\ Len(procs) = attempt
        /\ pc \in {"read", "wait", "done"} => sleeps = attempt - 1
        /\ pc = "sleep" => sleeps = attempt /\ license_error
        /\ (pc = "done" /\ license_error) =>
               /\ attempt = max_retries + 1
               /\ Len(procs) = max_retries + 1
               /\ sleeps = max_retries
               /\ exit_code = 1
        /\ (pc = "done" /\ ~license_error /\ worker_rc = 0) =>
               /\ sleeps = attempt - 1
               /\ exit_code = 0

C1_Witness ==
    /\ max_retries > 0
    /\ pc = "done"
    /\ license_error
    /\ Len(procs) = max_retries + 1
    /\ sleeps = max_retries

\* C2: with max_retries = 0 the first license failure ends the run with a
\* non-zero exit code: one worker only, and time.sleep is never called.
C2_NoRetries ==
    max_retries = 0 =>
        /\ attempt <= 1
        /\ Len(procs) <= 1
        /\ sleeps = 0
        /\ pc # "sleep"
        /\ (license_error /\ pc # "wait") =>
               /\ pc = "done"
               /\ exit_code = 1
               /\ ExitStatus(exit_code) # 0

C2_Witness ==
    /\ max_retries = 0
    /\ license_error
    /\ pc = "done"
    /\ Len(procs) = 1
    /\ sleeps = 0

\* C3: with max_retries < 0 a license failure is always followed by a sleep
\* and then by another attempt, however many failures came before; the run
\* ends only after an attempt without a license failure.
C3_Unlimited ==
    /\ [](max_retries < 0 =>
            /\ pc = "done" => ~license_error
            /\ pc = "sleep" => license_error /\ sleeps = attempt
            /\ pc \in {"read", "wait", "done"} => sleeps = attempt - 1
            /\ Len(procs) = attempt)
    /\ [][(max_retries < 0 /\ pc = "wait" /\ license_error /\ pc' # pc) =>
              (pc' = "sleep" /\ sleeps' = sleeps + 1)]_vars
    /\ [][(max_retries < 0 /\ pc = "sleep" /\ pc' # pc) => pc' = "start"]_vars
    /\ [][(max_retries < 0 /\ pc = "start" /\ pc' # pc) =>
              (pc' = "read" /\ Len(procs') = Len(procs) + 1)]_vars

C3_Witness ==
    /\ max_retries < 0
    /\ attempt = MaxAttempts
    /\ license_error
    /\ pc = "sleep"
    /\ sleeps = MaxAttempts

\* C4: the final exit code is 0 when the last worker exited 0 without a
\* license failure, the worker's own return code when it exited non-zero
\* without a license failure, and 1 when the run stops on a license failure,
\* whatever code the terminated worker returned.
C4_ExitCode ==
    pc = "done" =>
        /\ license_error => exit_code = 1
        /\ ~license_error =>
               /\ exit_code = worker_rc
               /\ worker_rc = 0 => ExitStatus(exit_code) = 0
               /\ worker_rc > 0 => ExitStatus(exit_code) = worker_rc

C4_Witness ==
    /\ pc = "done"
    /\ license_error
    /\ worker_rc \notin {0, 1}
    /\ exit_code = 1

\* the last n elements of a sequence
LastN(q, n) == IF Len(q) <= n THEN q ELSE SubSeq(q, Len(q) - n + 1, Len(q))

\* the elements of a sequence after the first n
DropN(q, n) == IF Len(q) <= n THEN <<>> ELSE SubSeq(q, n + 1, Len(q))

NoSignatureRead == \A i \in 1..Len(read_lines) : ~IsSignatureLine(read_lines[i])

\* C5: when line K of an attempt, K inside the check window, carries the
\* failure signature, the supervisor sends the worker SIGTERM, waits for it
\* to exit, marks the attempt a license failure, and nothing after line K
\* reaches the monitor: not its buffer, line count or full log, and
\* process_line is not called.
C5_LicenseStop ==
    /\ [](\A k \in 1..Len(read_lines) :
            (k <= license_check_lines /\ IsSignatureLine(read_lines[k])) =>
                /\ license_error
                /\ Len(read_lines) = k
                /\ monitor.line_count = k
                /\ monitor.log_file = read_lines
                /\ monitor.buffer = LastN(read_lines, monitor.buffer_size)
                /\ processed = <<>>
                /\ pc \in {"wait", "sleep", "start", "done"}
                /\ pc # "wait" =>
                       /\ CurrentProc.st = "reaped"
                       /\ child_process.has_rc
                       /\ waited = Len(procs))
    /\ [][(~license_error /\ license_error') =>
              /\ pc' = "wait"
              /\ Alive(CurrentProc) =>
                     SIGTERM \in procs'[child_process.pid].sigs]_vars

C5_Witness ==
    /\ license_error
    /\ pc = "sleep"
    /\ read_lines = <<"Error: License Not Found\n">>
    /\ pipe # <<>>
    /\ monitor.line_count = 1
    /\ CurrentProc.st = "reaped"

\* C6 as claimed: in an attempt without the failure signature every line
\* the worker wrote, the check-window lines included, was passed to
\* process_line exactly once and in order.
C6_AllToProcessLine ==
    (pc \in {"wait", "done"} /\ NoSignatureRead) => processed = read_lines

\* C6 as amended: in an attempt without the failure signature every line
\* the worker wrote is read and recorded by the monitor exactly once and in
\* order (line count, full log, buffer); the lines after the first K
\* (K = check window) are passed to process_line exactly once and in order,
\* the first K are recorded by the read loop itself without process_line.
C6_AllRecordedOnce ==
    (pc \in {"wait", "done"} /\ NoSignatureRead) =>
        /\ ~license_error
        /\ pipe = <<>>
        /\ processed = DropN(read_lines, license_check_lines)
        /\ monitor.log_file = read_lines
        /\ monitor.line_count = Len(read_lines)
        /\ monitor.buffer = LastN(read_lines, monitor.buffer_size)

C6_Witness ==
    /\ pc = "done"
    /\ NoSignatureRead
    /\ license_check_lines = 1
    /\ Len(read_lines) = 2
    /\ read_lines[1] # read_lines[2]
    /\ processed = <<read_lines[2]>>

\* C7: an attempt that ends without a license failure is final whatever the
\* worker's return code: the run exits, no further worker is spawned and no
\* retry sleep runs; a further worker is spawned only after a license
\* failure.
C7_NonLicenseFinal ==
    /\ [][(pc = "wait" /\ ~license_error /\ pc' # pc) =>
              /\ pc' = "done"
              /\ Len(procs') = Len(procs)
              /\ sleeps' = sleeps
              /\ attempt' = attempt]_vars
    /\ [][pc = "done" => (pc' = "done" /\ Len(procs') = Len(procs)
                           /\ sleeps' = sleeps)]_vars
    /\ [][(Len(procs') > Len(procs) /\ Len(procs) > 0) =>
              (license_error /\ sleeps = Len(procs))]_vars
    /\ [](pc = "sleep" => license_error)

C7_Witness ==
    /\ pc = "done"
    /\ ~license_error
    /\ worker_rc = 3
    /\ exit_code = 3
    /\ max_retries # 0
    /\ Len(procs) = 1
    /\ sleeps = 0

\* C8: at most one worker is alive at any time, exactly one worker is
\* spawned per attempt, and a worker is spawned only after the previous one
\* has exited and its wait() has returned.
C8_OneChild ==
    /\ [](/\ Cardinality({pid \in 1..Len(procs) : Alive(procs[pid])}) <= 1
          /\ Len(procs) = attempt
          /\ child_process.pid = Len(procs)
          /\ \A pid \in 1..(Len(procs) - 1) : procs[pid].st = "reaped")
    /\ [][Len(procs') # Len(procs) =>
              /\ Len(procs') = Len(procs) + 1
              /\ attempt' = attempt + 1
              /\ waited = Len(procs)
              /\ \A pid \in 1..Len(procs) : procs[pid].st = "reaped"]_vars

C8_Witness ==
    /\ Len(procs) = 2
    /\ procs[1].st = "reaped"
    /\ Alive(procs[2])
    /\ waited = 1

\* C9: a SIGTERM or SIGINT delivered while a worker runs is sent on to the
\* worker as the same signal; the handler does not end the supervisor, which
\* exits only later through the post-attempt logic, once the worker has
\* exited and wait() has returned.
C9_SignalForwarded ==
    /\ [][(nsignals' = nsignals + 1 /\ child_process.pid # 0
             /\ Alive(CurrentProc)) =>
              /\ last_sig' \in Signals
              /\ procs'[child_process.pid].sigs = CurrentProc.sigs \cup {last_sig'}
              /\ Alive(procs'[child_process.pid])
              /\ pc' = pc
              /\ exit_count' = exit_count]_vars
    /\ [][exit_count' # exit_count =>
              /\ pc = "wait"
              /\ Exited(CurrentProc)
              /\ nsignals' = nsignals]_vars
    /\ [](pc = "done" => (CurrentProc.st = "reaped" /\ waited = Len(procs)))

C9_Witness ==
    /\ pc = "done"
    /\ last_sig = SIGINT
    /\ worker_rc = -SIGINT
    /\ exit_code = -SIGINT
    /\ ~license_error

\* C10: when every worker eventually exits and max_retries >= 0, the run
\* eventually exits, and sys.exit is called exactly once.
C10_Terminates ==
    /\ <>(pc = "done" /\ exit_count = 1)
    /\ [](exit_count <= 1 /\ (pc = "done" <=> exit_count = 1))
    /\ [][exit_count = 1 => exit_count' = 1]_vars

C10_Witness ==
    /\ max_retries = MaxRetries
    /\ pc = "done"
    /\ exit_count = 1
    /\ attempt = MaxRetries + 1

\* the smaller of two numbers
Min(a, b) == IF a <= b THEN a ELSE b

C13_FullLog ==
    pc \in {"read", "wait"} =>
        /\ monitor.log_file = read_lines
        /\ monitor.line_count = Len(monitor.log_file)

C13_Witness ==
    /\ attempt = 2
    /\ pc = "read"
    /\ license_check_lines = 1
    /\ monitor.full_output_mode
    /\ Len(read_lines) = 2
    /\ ~IsSignatureLine(read_lines[1])
    /\ monitor.log_file = read_lines

\* the last n elements of the console
ConsoleTail(n) == LastN(console, n)

\* C16: on every exit of run_with_license_retry (success, non-license
\* failure, retries disabled, retries exhausted) the last worker spawned has
\* exited and been waited for, no worker is alive, the final logging is done
\* (the summary, after the error context when the worker failed; the
\* give-up message after a license failure; the full log is complete) and
\* the log file is closed; the log file is closed on no other occasion.
C16_CleanExit ==
    /\ pc = "done" =>
           /\ CurrentProc.st = "reaped"
           /\ child_process.has_rc
           /\ waited = Len(procs)
           /\ \A pid \in 1..Len(procs) : ~Alive(procs[pid])
           /\ monitor.log_closed
           /\ monitor.log_file = read_lines
           /\ ~license_error =>
                  ConsoleTail(2) = print_summary(monitor, exit_code, now)
           /\ (~license_error /\ exit_code # 0) =>
                  ConsoleTail(2 + Len(dump_buffer(monitor)))
                      = dump_buffer(monitor) \o print_summary(monitor, exit_code, now)
           /\ (license_error /\ max_retries = 0) =>
                  Contains(console[Len(console)], "retries disabled")
           /\ (license_error /\ max_retries > 0) =>
                  Contains(console[Len(console)], "exceeded")
    /\ monitor.log_closed => pc = "done"

C16_Witness ==
    /\ pc = "done"
    /\ license_error
    /\ max_retries = MaxRetries
    /\ attempt = MaxRetries + 1
    /\ monitor.log_closed
    /\ monitor.log_file # <<>>

\* C17: _signal_handler leaves the whole Output Monitor (buffer, line count,
\* timers, progress state, last content line, log file) as it was, wherever
\* in the read loop the signal arrives.
C17_HandlerFrame ==
    [][nsignals' # nsignals => monitor' = monitor]_vars

C17_Witness ==
    /\ nsignals = 1
    /\ pc = "read"
    /\ handler_out # <<>>
    /\ monitor.line_count = 2
    /\ monitor.last_content_line # ""

\* C12: after OutputMonitor.reset the monitor is in the state of a newly
\* constructed one with the same settings, and for every sequence of lines
\* that follows, through process_line or the check window, the buffer, line
\* count, timers, progress state, last content line, full log and console
\* output are those of the new instance: nothing from before the reset
\* shows.
C12_ResetIsFresh ==
    stage = "reset" =>
        /\ monitor = twin
        /\ console = twin_out

C12_Witness ==
    /\ stage = "reset"
    /\ monitor.start_time > 0
    /\ monitor.current_operation = "matchPhotos"
    /\ monitor.line_count = MaxLines
    /\ \E i \in 1..Len(console) : Contains(console[i], "matchPhotos: started")

\* the variable is set to something int() rejects
Unparseable(e) == e.set /\ ~ParseInt(e.value).ok

\* C14: when LICENSE_MAX_RETRIES, LICENSE_RETRY_INTERVAL or
\* LICENSE_CHECK_LINES does not parse as an integer the supervisor ends with
\* an error at startup: the retry loop is never entered and no worker is
\* ever spawned.
C14_FailsAtStartup ==
    /\ ( \/ Unparseable(env.LICENSE_MAX_RETRIES)
         \/ Unparseable(env.LICENSE_RETRY_INTERVAL)
         \/ Unparseable(env.LICENSE_CHECK_LINES) ) =>
           /\ pc \in {"boot", "crashed"}
           /\ procs = <<>>
           /\ child_process = NoChild
           /\ attempt = 0
    /\ pc = "crashed" => (procs = <<>> /\ exit_count = 0)

C14_Witness ==
    /\ pc = "crashed"
    /\ env.LICENSE_MAX_RETRIES = SetTo("1")
    /\ env.LICENSE_RETRY_INTERVAL = Unset
    /\ env.LICENSE_CHECK_LINES = SetTo("")
    /\ env.LOG_BUFFER_SIZE = Unset
    /\ env.LOG_HEARTBEAT_INTERVAL = Unset

\* C15 as claimed: with LICENSE_CHECK_LINES unset, exactly the first 20
\* lines of an attempt are inside the check window.
C15_TwentyLines ==
    (pc \notin {"boot", "crashed"} /\ ~env.LICENSE_CHECK_LINES.set) =>
        \A lc \in 0..(DocCheckLines + 1) :
            InCheckPhase(lc, license_check_lines) <=> lc < DocCheckLines

\* a periodic heartbeat line of the console
IsHeartbeat(text) ==
    StartsWith(text, HEARTBEAT_PREFIX) /\ Contains(text, " | output lines: ")

Heartbeats == SelectSeq(console, IsHeartbeat)

\* the elapsed-time value a heartbeat line shows
ElapsedOf(text) ==
    CHOOSE e \in 0..MaxTime : Contains(text, " | elapsed: " \o Str(e) \o "s")

ElapsedNeverDecreases ==
    \A i, j \in 1..Len(Heartbeats) :
        i < j => ElapsedOf(Heartbeats[i]) <= ElapsedOf(Heartbeats[j])

NoProgressMarkers ==
    \A i \in 1..Len(read_lines) : ~Contains(read_lines[i], PROGRESS_PREFIX)

SparseEverySecond ==
    ~monitor.full_output_mode /\ monitor.heartbeat_interval = 1

\* C18 as claimed: in sparse mode with a heartbeat interval of 1 second, a
\* worker that ran for 3 seconds without progress markers has caused at
\* least two heartbeat lines, with elapsed values that never decrease.
C18_TwoHeartbeats ==
    (SparseEverySecond /\ pc = "done" /\ ~license_error /\ worker_secs >= 3
       /\ NoProgressMarkers) =>
        /\ Len(Heartbeats) >= 2
        /\ ElapsedNeverDecreases

\* C18 as amended: heartbeats are printed only as lines are handed to
\* process_line. In sparse mode with a heartbeat interval of 1 second the
\* attempt shows at least two heartbeat lines once lines were handed to
\* process_line at two moments at least 1 second apart, the first at least
\* 1 second after the attempt began; it shows none while no line was handed
\* to process_line; the elapsed values of successive heartbeats of an
\* attempt never decrease.
C18_HeartbeatsFollowLines ==
    SparseEverySecond =>
        /\ ElapsedNeverDecreases
        /\ processed = <<>> => Heartbeats = <<>>
        /\ (\E i, j \in 1..Len(processed_at) :
               /\ i < j
               /\ processed_at[i] >= monitor.start_time + 1
               /\ processed_at[j] >= processed_at[i] + 1) =>
               Len(Heartbeats) >= 2

C18_Witness ==
    /\ SparseEverySecond
    /\ pc = "done"
    /\ ~license_error
    /\ worker_secs >= 3
    /\ NoProgressMarkers
    /\ Len(Heartbeats) = 2
    /\ ElapsedOf(Heartbeats[1]) < ElapsedOf(Heartbeats[2])

\* entries of the structured log
YamlEntries ==
    Cardinality({ i \in 1..Len(yaml_log) : StartsWith(yaml_log[i], "  - api_call: ") })

\* C19: when the call wrapped by BenchmarkMonitor.monitor raises, the scope
\* is left with the sampler stopped and joined and one record in each log,
\* and the exception that leaves the scope is the one the call raised.
C19_ExceptionPropagates ==
    (fg = "out" /\ scopes = 1 /\ op_exc # "") =>
        /\ stop_sampling
        /\ joined # ""
        /\ Len(human_log) = 1
        /\ YamlEntries = 1
        /\ raised = op_exc

\* C20 as claimed: while the foreground computes the aggregates the stop
\* signal is set and the sampling thread has ended, so that no append can
\* still occur.
C20_HandoffAfterSamplerEnded ==
    fg \in Aggregating => (stop_sampling /\ sampler = "done")

\* the aggregates are computed after the stop signal and the join, and a
\* thread that was stopped appends at most the rest of one iteration
C20_AfterStopAndJoin ==
    /\ fg \in Aggregating => (stop_sampling /\ joined \in {"ended", "timeout"})
    /\ (fg \in Aggregating /\ joined = "ended") => sampler = "done"
    /\ stop_sampling => \A i \in 1..4 : Lengths[i] <= at_stop[i] + 1

\* the sample lists are created by the foreground on entry and afterwards
\* changed by steps of the sampling thread only
C20_OnlySamplerWrites ==
    samples' # samples =>
        \/ sampler' # sampler /\ UNCHANGED foreground
        \/ fg = "out" /\ fg' = "body" /\ Lengths' = <<0, 0, 0, 0>>

\* C20 as amended: within a monitoring scope the sample lists are written
\* only by the sampling worker, and the foreground thread reads them to
\* compute aggregates only after the stop signal has been set and the
\* bounded join has returned. If the join returned because the worker had
\* ended, no append can still occur; if it timed out, the worker may still
\* append, while the aggregates are computed, what is left of the iteration
\* it was in: at most one value to each list.
C20_HandoffAfterJoinReturns ==
    []C20_AfterStopAndJoin /\ [][C20_OnlySamplerWrites]_vars

C20_Witness ==
    /\ fg \in Aggregating
    /\ joined = "timeout"
    /\ sampler = "wait"
    /\ Lengths[4] = at_stop[4] + 1

\* C21: leaving a monitoring scope always completes: the stop flag is set,
\* the join has returned (the sampler ended or the timeout passed) and the
\* record computed from the samples collected so far is written to both
\* logs, whether or not the sampler has finished.
C21_ExitWritesRecord ==
    (fg = "out" /\ scopes = 1) =>
        /\ stop_sampling
        /\ joined \in {"ended", "timeout"}
        /\ Len(human_log) = 1
        /\ YamlEntries = 1

\* C22: a scope whose sampler collected no sample still writes a complete
\* record (one row, one entry of 16 keys), every figure of which comes from
\* one snapshot taken at exit and none of which is a placeholder zero.
C22_ZeroSamplesFromSnapshot ==
    (fg = "out" /\ scopes = 1 /\ Lengths = <<0, 0, 0, 0>>) =>
        /\ Len(human_log) = 1
        /\ Len(yaml_log) = 17
        /\ \E m \in MemReadings : locals.peak_memory = PeakMemory(<<>>, m)
        /\ \E c \in CpuReadings : locals.cpu_percent = 10 * c
        /\ \E c \in ProcessCpuReadings : locals.process_cpu_cores = 10 * c

\* the sample key and the record key of each peak and of each minimum
PeakKeys ==
    { << "proc_mem_gb", "proc_mem_peak_gb" >>,
      << "container_used_gb", "container_used_peak_gb" >>,
      << "sys_used_gb", "sys_used_peak_gb" >> }

MinKeys ==
    { << "container_avail_gb", "container_avail_min_gb" >>,
      << "sys_avail_gb", "sys_avail_min_gb" >> }

\* the step that computes peak_memory from at least one memory sample
MemoryAggregated ==
    fg = "peak_memory" /\ fg' = "system_info" /\ memory_samples # <<>>

\* x is the largest (smallest) value of key among the memory samples
IsMaximum(x, key) ==
    /\ \E i \in 1..Len(memory_samples) : memory_samples[i][key] = x
    /\ \A i \in 1..Len(memory_samples) : memory_samples[i][key] <= x

IsMinimum(x, key) ==
    /\ \E i \in 1..Len(memory_samples) : memory_samples[i][key] = x
    /\ \A i \in 1..Len(memory_samples) : memory_samples[i][key] >= x

\* v (tenths) is x (hundredths) rounded to one decimal
RoundedTo(v, x) == 10 * v - x <= 5 /\ x - 10 * v <= 5

\* C23 as claimed: with at least one memory sample, every reported peak is
\* at least the value of every sample and is the largest sample value, and
\* every reported minimum is at most the value of every sample and is the
\* smallest sample value.
C23_PeakIsMaximum ==
    [][MemoryAggregated =>
          /\ \A k \in PeakKeys : IsMaximum(10 * locals'.peak_memory[k[2]], k[1])
          /\ \A k \in MinKeys : IsMinimum(10 * locals'.peak_memory[k[2]], k[1])]_vars

\* C23 as amended: with at least one memory sample collected when the
\* aggregates are computed, every reported peak is the largest value among
\* the samples collected by then, rounded to one decimal, and every
\* reported minimum is the smallest such value, rounded to one decimal.
C23_PeakIsRoundedMaximum ==
    [][MemoryAggregated =>
          /\ \A k \in PeakKeys :
                \E x \in Column(memory_samples, k[1]) :
                    IsMaximum(x, k[1]) /\ RoundedTo(locals'.peak_memory[k[2]], x)
          /\ \A k \in MinKeys :
                \E x \in Column(memory_samples, k[1]) :
                    IsMinimum(x, k[1]) /\ RoundedTo(locals'.peak_memory[k[2]], x)]_vars

C23_Witness ==
    /\ fg = "system_info"
    /\ joined = "ended"
    /\ Len(memory_samples) = 2
    /\ memory_samples[1].proc_mem_gb = 312
    /\ memory_samples[2].proc_mem_gb = 204
    /\ locals.peak_memory.proc_mem_peak_gb = 31
    /\ locals.peak_memory.container_avail_min_gb = 20

\* the lines of the structured log at which an entry starts
EntryStarts ==
    { i \in 1..Len(yaml_log) : StartsWith(yaml_log[i], "  - api_call: ") }

\* the lines of the entry that starts at line i
EntryLines(i) ==
    { j \in (i + 1)..Len(yaml_log) :
        \A k \in (i + 1)..j : ~StartsWith(yaml_log[k], "  - api_call: ") }

EntryHasKey(i, key) ==
    \E j \in EntryLines(i) : StartsWith(yaml_log[j], "    " \o key \o ": ")

EntryHasValue(i, key, v) ==
    \E j \in EntryLines(i) : yaml_log[j] = "    " \o key \o ": " \o v \o "\n"

GpuKeys == {"gpu_percent", "gpu_count", "gpu_model"}

\* C24 as claimed: every entry of the structured log holds the three GPU
\* keys, and without a GPU telemetry provider at construction time all three
\* are null.
C24_GpuNullWithoutProvider ==
    \A i \in EntryStarts :
        /\ \A key \in GpuKeys : EntryHasKey(i, key)
        /\ ~benchmark.gpu_available =>
               \A key \in GpuKeys : EntryHasValue(i, key, "null")

\* C24 as amended: every entry of the structured log holds the three GPU
\* keys, none is ever left out. gpu_percent has a value only if a GPU
\* telemetry provider was available at construction time and is null
\* otherwise. gpu_count and gpu_model are what the system-info callable
\* returned, whether or not a provider was available, and null when no
\* callable was given.
C24_GpuKeysNeverOmitted ==
    \A i \in EntryStarts :
        /\ \A key \in GpuKeys : EntryHasKey(i, key)
        /\ ~benchmark.gpu_available => EntryHasValue(i, "gpu_percent", "null")
        /\ ~benchmark.has_system_info_fn =>
               /\ EntryHasValue(i, "gpu_count", "null")
               /\ EntryHasValue(i, "gpu_model", "null")
        /\ benchmark.has_system_info_fn =>
               /\ EntryHasValue(i, "gpu_count", locals.system_info.gpu_count)
               /\ EntryHasValue(i, "gpu_model", locals.system_info.gpu_model)

C24_Witness ==
    /\ fg = "out"
    /\ EntryStarts = {2}
    /\ ~benchmark.gpu_available
    /\ benchmark.has_system_info_fn
    /\ EntryHasValue(2, "gpu_percent", "null")
    /\ EntryHasValue(2, "gpu_count", "1")
    /\ EntryHasValue(2, "gpu_model", "GPU")

\* C25: every exit of a monitoring scope has appended one row to the
\* human-readable log and one entry of 16 lines to the structured log.
C25_OneRowOneEntry ==
    fg = "out" =>
        /\ Len(human_log) = scopes
        /\ Cardinality(EntryStarts) = scopes
        /\ Len(yaml_log) = 1 + 16 * scopes

\* a line was read from the worker in this step, and which
LineRead == Len(read_lines') = Len(read_lines) + 1
TheLineRead == read_lines'[Len(read_lines')]

\* C26: only the first K lines of an attempt (K = check window) are tested
\* for the failure signature. A line read after K others that carries the
\* signature is handed to process_line like any other line: the worker is
\* sent nothing, no license failure is marked and the read loop goes on; a
\* license failure, and with it a retry, comes from one of the first K lines
\* only, the last line read.
C26_WindowOnly ==
    /\ [](license_error =>
             /\ Len(read_lines) <= license_check_lines
             /\ IsSignatureLine(read_lines[Len(read_lines)]))
    /\ [](pc = "sleep" => license_error)
    /\ [][(LineRead /\ Len(read_lines) >= license_check_lines) =>
             /\ processed' = Append(processed, TheLineRead)
             /\ license_error' = license_error
             /\ child_process' = child_process
             /\ procs' = procs
             /\ pc' = "read"]_vars

C26_Witness ==
    /\ pc = "done"
    /\ ~license_error
    /\ attempt = 1
    /\ license_check_lines = 1
    /\ Len(read_lines) = 2
    /\ ~IsSignatureLine(read_lines[1])
    /\ IsSignatureLine(read_lines[2])
    /\ processed = << read_lines[2] >>
    /\ exit_code = 0

\* the fields of the monitor that reset clears are clear
Cleared(m) ==
    /\ m.buffer = <<>>
    /\ m.line_count = 0
    /\ m.last_content_line = ""
    /\ m.last_progress = ""
    /\ m.current_operation = ""
    /\ m.log_file = <<>>

\* C27: the monitor is reset exactly once in every attempt, when the attempt
\* begins: the worker of the attempt before has exited and been waited for,
\* the new worker is spawned after the reset, and within an attempt the
\* monitor only accumulates; so when the first line of an attempt is read
\* the buffer, line count, progress state and full log hold nothing of an
\* earlier attempt.
C27_ResetOncePerAttempt ==
    /\ []((pc = "read" /\ read_lines = <<>>) => Cleared(monitor))
    /\ [][attempt' # attempt =>
             /\ attempt' = attempt + 1
             /\ attempt > 0 => /\ child_process.has_rc
                               /\ procs[child_process.pid].st = "reaped"
             /\ Cleared(monitor')
             /\ monitor'.start_time = now
             /\ monitor'.last_heartbeat = now
             /\ procs' = Append(procs, NewProc)
             /\ child_process'.pid = Len(procs')]_vars
    /\ [][attempt' = attempt =>
             /\ monitor'.line_count >= monitor.line_count
             /\ Len(monitor'.log_file) >= Len(monitor.log_file)
             /\ monitor'.start_time = monitor.start_time]_vars

C27_Witness ==
    /\ attempt = 2
    /\ sleeps = 1
    /\ waited = 1
    /\ pc = "read"
    /\ pipe # <<>>
    /\ read_lines = <<>>
    /\ Cleared(monitor)
    /\ procs[1].st = "reaped"

\* the lines this step adds to the console
Printed == SubSeq(console', Len(console) + 1, Len(console'))

IsDumpBegin(text) ==
    StartsWith(text, "\n[automate-metashape-monitor] === Last ")
IsDumpEnd(text) ==
    StartsWith(text, "[automate-metashape-monitor] === End error context ===")
IsSummary(text) ==
    /\ StartsWith(text, "[automate-metashape-monitor] ")
    /\ Contains(text, " | total output lines: ")

\* C28: dump_buffer is called exactly when wait() has returned for an
\* attempt without license failure whose worker's return code is not 0,
\* never after a license failure or a return code of 0 and at no other
\* moment; it prints the buffered lines between its two markers before the
\* summary of print_summary, and leaves the buffer as it was.
C28_DumpOnFailureOnly ==
    /\ [][waited' # waited =>
             /\ (\E i \in 1..Len(Printed) : IsDumpBegin(Printed[i]))
                    <=> (~license_error /\ child_process'.returncode # 0)
             /\ (\E i \in 1..Len(Printed) : IsDumpBegin(Printed[i])) =>
                    LET n == Len(monitor.buffer)
                    IN  /\ IsDumpBegin(Printed[1])
                        /\ SubSeq(Printed, 2, n + 1) = monitor.buffer
                        /\ IsDumpEnd(Printed[n + 2])
                        /\ IsSummary(Printed[n + 3])
             /\ monitor'.buffer = monitor.buffer]_vars
    /\ [][waited' = waited =>
             \A i \in 1..Len(console') :
                 IsDumpBegin(console'[i]) =>
                     i <= Len(console) /\ console[i] = console'[i]]_vars

C28_Witness ==
    /\ pc = "done"
    /\ ~license_error
    /\ exit_code = 3
    /\ monitor.buffer # <<>>
    /\ \E i \in 1..Len(console) :
          /\ IsDumpBegin(console[i])
          /\ console[i + 1] = monitor.buffer[1]
          /\ IsDumpEnd(console[i + 2])
          /\ IsSummary(console[i + 3])

\* a line was handed to process_line in this step
LineProcessed == Len(processed') = Len(processed) + 1

\* the timer test of process_line, from the state before the line
TimerExpired == now - monitor.last_heartbeat >= monitor.heartbeat_interval

NewHeartbeats == SelectSeq(Printed, IsHeartbeat)

\* C29: in sparse mode process_line prints a periodic heartbeat only as the
\* last thing it does for a line, at most one per line and exactly when the
\* time since the last periodic heartbeat (or since the reset of the
\* attempt) has reached the heartbeat interval, and then sets the heartbeat
\* timer to the present; otherwise the timer is left alone. No periodic
\* heartbeat appears in a step that hands no line to process_line, and two
\* periodic heartbeats of one attempt are at least the interval apart.
C29_HeartbeatWhenDue ==
    /\ [][(LineProcessed /\ ~monitor.full_output_mode) =>
             /\ Len(NewHeartbeats) = (IF TimerExpired THEN 1 ELSE 0)
             /\ TimerExpired =>
                    /\ IsHeartbeat(Printed[Len(Printed)])
                    /\ monitor'.last_heartbeat = now
             /\ ~TimerExpired =>
                    monitor'.last_heartbeat = monitor.last_heartbeat]_vars
    /\ [][(~LineProcessed /\ attempt' = attempt) =>
             /\ SubSeq(console', 1, Len(console)) = console
             /\ NewHeartbeats = <<>>
             /\ monitor'.last_heartbeat = monitor.last_heartbeat]_vars
    /\ [][attempt' # attempt =>
             /\ Heartbeats' = <<>>
             /\ monitor'.last_heartbeat = now]_vars
    /\ [](~monitor.full_output_mode =>
             \A i, j \in 1..Len(Heartbeats) :
                 i < j => ElapsedOf(Heartbeats[j]) - ElapsedOf(Heartbeats[i])
                              >= monitor.heartbeat_interval)

C29_Witness ==
    /\ SparseEverySecond
    /\ Len(processed_at) >= 2
    /\ processed_at[1] = monitor.start_time + 1
    /\ processed_at[2] = processed_at[1]
    /\ Len(Heartbeats) = 1
    /\ ElapsedOf(Heartbeats[1]) = 1
    /\ monitor.last_heartbeat = processed_at[1]

\* operation names and percentages of the progress lines fed to the monitor
ProgressOps == { "matchPhotos", "alignCameras" }
Percents == { 0, 25, 50, 75, 100 }

ProgressText(name, n) == name \o ": " \o Str(n) \o "%"

\* the line is a progress marker of operation name at n percent
IsProgressOf(line, name, n) ==
    Contains(line, PROGRESS_PREFIX \o " " \o ProgressText(name, n) \o "\n")

IsStarted(text, name) ==
    StartsWith(text, HEARTBEAT_PREFIX) /\ Contains(text, " | " \o name \o ": started\n")

IsCompleted(text, name) ==
    StartsWith(text, HEARTBEAT_PREFIX) /\ Contains(text, " | " \o name \o ": completed\n")

\* the progress markers among the lines fed: << line, name, percentage >>
ProgressMarkers ==
    { k \in MonitorLines \X ProgressOps \X Percents : IsProgressOf(k[1], k[2], k[3]) }

Announced(out, name) ==
    Cardinality({ i \in 1..Len(out) : IsStarted(out[i], name) })

LineOf(p) == p[1] \o p[2] \o p[3]
Fed(p) == monitor'.log_file = Append(monitor.log_file, LineOf(p))

\* the marker prefixes other than progress
ImportantMarkers ==
    { "[automate-metashape-monitor]",
      "[automate-metashape-license-wrapper]",
      "[automate-metashape-heartbeat]" }

HasImportantPrefix(p) ==
    p[1] = "" /\ \E marker \in ImportantMarkers : StartsWith(p[2], marker)

HasProgressMarker(p) == StartsWith(p[2], PROGRESS_PREFIX)

FirstHundred(text) == IF Len(text) <= 100 THEN text ELSE SubSeq(text, 1, 100)

Times(out, text) == Cardinality({ i \in 1..Len(out) : out[i] = text })

ProgressState(m) == << m.last_progress, m.current_operation >>

\* what was printed since the monitor was constructed
Shown ==
    SubSeq(console, Len(InitOutput(monitor.heartbeat_interval)) + 1, Len(console))

\* C31: in sparse mode a line that begins with the monitor, license-wrapper
\* or heartbeat marker is printed verbatim, once, and leaves the last
\* content line as it was; any other line without progress marker is not
\* printed, and its text (without surrounding whitespace), cut to its first
\* 100 characters, becomes the last content line.
C31_ImportantOrContent ==
    [][\A p \in LineParts :
          (~monitor.full_output_mode /\ Fed(p) /\ ~HasProgressMarker(p)) =>
              IF HasImportantPrefix(p)
              THEN /\ Times(Printed, LineOf(p)) = 1
                   /\ monitor'.last_content_line = monitor.last_content_line
              ELSE /\ Times(Printed, LineOf(p)) = 0
                   /\ monitor'.last_content_line = FirstHundred(p[2])
                   /\ Len(monitor'.last_content_line) <= 100]_vars

C31_Witness ==
    /\ ~monitor.full_output_mode
    /\ Len(monitor.log_file) = 2
    /\ \E p \in LineParts :
          /\ Len(p[2]) > 100
          /\ monitor.log_file[1] = LineOf(p)
          /\ monitor.last_content_line = SubSeq(p[2], 1, 100)
    /\ monitor.log_file[2] = "[automate-metashape-monitor] note\n"
    /\ Shown = << "[automate-metashape-monitor] note\n" >>

\* C32: with a heartbeat interval of 0 process_line prints the line verbatim
\* and nothing else, leaves the progress state, the last content line and
\* the heartbeat timer as they were, and still counts the line, appends it
\* to the buffer (which keeps its newest buffer_size lines) and writes it to
\* the full log.
C32_FullOutputMode ==
    [][\A p \in LineParts :
          (monitor.heartbeat_interval = 0 /\ Fed(p)) =>
              /\ Printed = << LineOf(p) >>
              /\ ProgressState(monitor') = ProgressState(monitor)
              /\ monitor'.last_content_line = monitor.last_content_line
              /\ monitor'.last_heartbeat = monitor.last_heartbeat
              /\ monitor'.line_count = monitor.line_count + 1
              /\ LET all  == Append(monitor.buffer, LineOf(p))
                     keep == IF Len(all) <= monitor.buffer_size
                             THEN Len(all) ELSE monitor.buffer_size
                 IN  monitor'.buffer = SubSeq(all, Len(all) - keep + 1, Len(all))]_vars

C32_Witness ==
    /\ monitor.heartbeat_interval = 0
    /\ now >= 1
    /\ monitor.line_count = 2
    /\ HasProgressMarker(<< "", monitor.log_file[1], "" >>)
    /\ ~IsImportant(monitor.log_file[2])
    /\ Shown = monitor.log_file
    /\ monitor.buffer = << monitor.log_file[2] >>
    /\ ProgressState(monitor) = << "", "" >>
    /\ monitor.last_content_line = ""

\* the three treatments of a line, by what the step did with it
TreatedAsProgress(p) ==
    /\ HasProgressMarker(p)
    /\ monitor'.last_progress = SubSeq(p[2], Len(PROGRESS_PREFIX) + 2, Len(p[2]))
    /\ Times(Printed, LineOf(p)) = 0
    /\ monitor'.last_content_line = monitor.last_content_line

TreatedAsImportant(p) ==
    /\ Times(Printed, LineOf(p)) = 1
    /\ ProgressState(monitor') = ProgressState(monitor)
    /\ monitor'.last_content_line = monitor.last_content_line

TreatedAsOrdinary(p) ==
    /\ Times(Printed, LineOf(p)) = 0
    /\ ProgressState(monitor') = ProgressState(monitor)
    /\ monitor'.last_content_line = FirstHundred(p[2])

Treatments(p) ==
    (IF TreatedAsProgress(p) THEN 1 ELSE 0)
    + (IF TreatedAsImportant(p) THEN 1 ELSE 0)
    + (IF TreatedAsOrdinary(p) THEN 1 ELSE 0)

StepsLeft(at) ==
    CASE at = "cpu_percent" -> 6
      [] at = "gpu_util"    -> 5
      [] at = "process_cpu" -> 4
      [] at = "mem_metrics" -> 3
      [] at = "wait"        -> 2
      [] at = "test"        -> 1
      [] OTHER              -> 0

\* C33: once the stop event of a scope is set the sampling thread starts no
\* new iteration: the loop test sends it to its end, the wait between
\* samples returns without the clock advancing, each list gets at most the
\* one value of the iteration that was under way, and the thread, which can
\* always take its next step, is at its end after at most 6 steps.
C33_NoNewIteration ==
    /\ [](stop_sampling =>
             /\ \A i \in 1..4 : Lengths[i] <= at_stop[i] + 1
             /\ sampler # "done" => ENABLED Sampler)
    /\ [][(stop_sampling /\ sampler' # sampler) =>
             /\ StepsLeft(sampler') = StepsLeft(sampler) - 1
             /\ sampler = "test" => sampler' = "done"
             /\ sampler = "wait" => (sampler' = "test" /\ now' = now)]_vars
    /\ [][sampler = "done" => (sampler' = "done" /\ samples' = samples)]_vars

C33_Witness ==
    /\ stop_sampling
    /\ sampler = "done"
    /\ joined = "ended"
    /\ at_stop = << 1, 1, 1, 1 >>
    /\ Lengths = << 2, 2, 2, 2 >>

\* the row of the human-readable log shows no GPU utilisation
RowWithoutGpu(row) == Contains(row, " |   N/A | ")

\* the record written shows the GPU mean as absent
WrittenWithoutGpu ==
    /\ \A i \in EntryStarts : EntryHasValue(i, "gpu_percent", "null")
    /\ \A i \in 1..Len(human_log) : RowWithoutGpu(human_log[i])

RecordWritten == fg = "out" /\ Len(human_log) = 1 /\ Cardinality(EntryStarts) = 1

WholeIterations ==
    /\ Len(process_cpu_samples) = Len(cpu_samples)
    /\ Len(memory_samples) = Len(cpu_samples)
    /\ Len(gpu_samples) <= Len(cpu_samples)

C35_CheckPhaseDirect ==
    [][(LineRead /\ Len(read_lines) < license_check_lines) =>
          /\ Len(Printed) \in {1, 2}
          /\ Printed[1] = TheLineRead
          /\ \A i \in 2..Len(Printed) :
                StartsWith(Printed[i],
                           "[automate-metashape-license-wrapper] License check passed")
          /\ processed' = processed
          /\ monitor'.line_count = monitor.line_count + 1
          /\ monitor'.log_file = Append(monitor.log_file, TheLineRead)
          /\ LET all  == Append(monitor.buffer, TheLineRead)
                 keep == IF Len(all) <= monitor.buffer_size
                         THEN Len(all) ELSE monitor.buffer_size
             IN  monitor'.buffer = SubSeq(all, Len(all) - keep + 1, Len(all))
          /\ ProgressState(monitor') = ProgressState(monitor)
          /\ monitor'.last_content_line = monitor.last_content_line
          /\ monitor'.last_heartbeat = monitor.last_heartbeat]_vars

C35_Witness ==
    /\ SparseEverySecond
    /\ license_check_lines = 1
    /\ read_lines = << "[automate-metashape-progress] matchPhotos: 100%\n" >>
    /\ processed = <<>>
    /\ now - monitor.last_heartbeat >= monitor.heartbeat_interval
    /\ monitor.line_count = 1
    /\ monitor.buffer = read_lines
    /\ ProgressState(monitor) = << "", "" >>
    /\ Heartbeats = <<>>
    /\ \E i \in 1..Len(console) : console[i] = read_lines[1]
    /\ \A i \in 1..Len(console) : ~StartsWith(console[i], HEARTBEAT_PREFIX)

\* a signal was forwarded to the worker of the current attempt, which
\* exited because of it
KilledByForwardedSignal ==
    /\ attempt > 0
    /\ handler_out # <<>>
    /\ ~Alive(CurrentProc)
    /\ worker_rc = -last_sig

\* C36: once a termination signal was forwarded to the running worker and
\* the worker exited because of it, no further attempt is spawned and the
\* supervisor does not sleep for a retry: when wait() has returned it exits.
C36_NoAttemptAfterSignal ==
    [][KilledByForwardedSignal =>
          /\ attempt' = attempt
          /\ sleeps' = sleeps
          /\ waited' # waited => pc' = "done"]_vars

\* no worker runs: none was spawned yet, or the last one has exited
NoWorkerRuns == child_process.pid = 0 \/ ~Alive(CurrentProc)

SignalDelivered == nsignals' = nsignals + 1

\* the signals pending at the workers
Pending(ps) == [ pid \in 1..Len(ps) |-> ps[pid].sigs ]

\* C37: a termination signal delivered while no worker runs (before the
\* first is spawned, after one has exited, during the sleep before a retry)
\* is not forwarded, is not reported and changes nothing in the supervisor,
\* which stays where it is; from the retry sleep it goes on to the next
\* attempt as it would have without the signal.
C37_IdleSignalIgnored ==
    /\ [][(SignalDelivered /\ NoWorkerRuns) =>
             /\ handler_out' = handler_out
             /\ Pending(procs') = Pending(procs)
             /\ UNCHANGED << pc, attempt, license_error, console, monitor, wake,
                             sleeps, exit_code, exit_count, waited >>]_vars
    /\ []((pc = "sleep" /\ now >= wake) => ENABLED SleepReturn)
    /\ []((pc = "start" /\ attempt < MaxAttempts) => ENABLED StartAttempt)

C37_Witness ==
    /\ pc = "sleep"
    /\ attempt = 1
    /\ nsignals = 1
    /\ last_sig = SIGTERM
    /\ handler_out = <<>>
    /\ now >= wake
    /\ CurrentProc.st = "reaped"

\* the summary line shows n as the number of output lines
SummaryCounts(text, n) ==
    IsSummary(text) /\ Contains(text, " | total output lines: " \o Str(n) \o " | ")

\* C38: from the moment an attempt begins the monitor's line_count is the
\* number of lines read from the worker of that attempt, whether the read
\* loop recorded them itself or process_line did; the summary is printed
\* when all lines of the last worker have been read and shows their number.
C38_LineCountIsLinesRead ==
    /\ [](attempt > 0 => monitor.line_count = Len(read_lines))
    /\ [][LineRead => monitor'.line_count = monitor.line_count + 1]_vars
    /\ [][\A i \in (Len(console) + 1)..Len(console') :
             IsSummary(console'[i]) =>
                 /\ pipe = <<>>
                 /\ SummaryCounts(console'[i], Len(read_lines))]_vars

C38_Witness ==
    /\ pc = "done"
    /\ attempt = 2
    /\ ~license_error
    /\ license_check_lines = 1
    /\ Len(read_lines) = 2
    /\ Len(processed) = 1
    /\ monitor.line_count = 2
    /\ \E i \in 1..Len(console) : SummaryCounts(console[i], 2)

\* C39: whatever constructions and monitored scopes the two log paths have
\* seen, the structured log holds one api_call entry for every telemetry row
\* of the human-readable log.
C39_EntryPerRow ==
    fg = "out" => Cardinality(EntryStarts) = Len(human_log)

\* One step of the supervisor's own thread.
Supervisor ==
    \/ StartAttempt
    \/ ReadLine
    \/ ReadEOF
    \/ Wait
    \/ SleepReturn

\* A worker exits by itself.
WorkerExits == \E pid \in 1..Len(procs), rc \in RetCodes : ChildExit(pid, rc)

\* The supervisor keeps running (a sleep ends, a read or a wait returns when
\* it can), and every worker eventually exits.
Fairness ==
    /\ WF_vars(Supervisor)
    /\ WF_vars(WorkerExits)

\* The runs with a retry budget, max_retries >= 0. No branch of the
\* supervisor reads the monitor, so one monitor configuration is explored.
LiveInit ==
    /\ Init
    /\ max_retries >= 0
    /\ monitor.buffer_size = 1
    /\ ~monitor.full_output_mode

\* The steps of Next, with at most one signal delivered in a run.
LiveNext ==
    \/ StartAttempt
    \/ ReadLine
    \/ ReadEOF
    \/ Wait
    \/ SleepReturn
    \/ \E signum \in Signals : nsignals = 0 /\ Signal(signum)
    \/ \E line \in WorkerLines : ChildEmit(line)
    \/ \E pid \in 1..Len(procs) : ChildClose(pid)
    \/ \E pid \in 1..Len(procs), rc \in RetCodes \cup {-SIGTERM, -SIGINT} :
          ChildExit(pid, rc)

LiveSpec == LiveInit /\ [][LiveNext]_vars /\ Fairness

====
